---- MODULE Spec2Model ----
(***************************************************************************)
(* Stroke detection and pipeline control of the digital-ink processing     *)
(* system.                                                                 *)
(*                                                                         *)
(* Two StrokeDetector implementations live in the repository:              *)
(*   "P2"  sys_dev/Phase2/StrokeDetector.py                                *)
(*   "DC"  sys_dev/Phase2_divscreen_color/StrokeDetector.py                *)
(* The variable `variant` selects which one a behaviour runs.  The         *)
(* controller is sys_dev/Phase2/InkProcessingSystemMainController.py.      *)
(*                                                                         *)
(* Units: timestamps are tenths of a second; pressures and normalised      *)
(* coordinates are thousandths (NormScale), so every quantity of the code  *)
(* is an integer here.                                                     *)
(***************************************************************************)
EXTENDS Integers, Sequences, FiniteSets, TLC

(* ------------------------------ bounds --------------------------------- *)
\* largest stroke id a behaviour may consume
MaxId == 3
\* most points buffered in one stroke
MaxPoints == 2
\* most undrained records in completed_strokes
MaxCompleted == 1
\* most points queued in processed_point_buffer
MaxBuf == 1
\* most raw samples the device delivers to a running controller
MaxSamples == 3
\* most internal errors raised inside finalize_current_stroke in one behaviour
MaxFaults == 1
\* capacity of each buffer the BufferManager creates
BufCap == 2
\* most items offered to the buffers of one BufferManager, all buffers together
MaxPushes == 7
\* most add_point_to_buffer calls the concurrent producers make between them
MaxCalls == 4
\* most start_processing calls in one behaviour
MaxStarts == 2
\* the BufferManager's clock runs from 0 to MaxTime
MaxTime == 2
\* most samples given to process_point in one behaviour
MaxSubmitted == 3
\* most points the collection thread collects after a start
MaxCollected == 4

(* -------------------------- program constants -------------------------- *)
\* `if time_gap > 0.5`, in tenths of a second
StaleGap == 5
\* timestamps are seconds in the code, tenths of a second here
TicksPerSecond == 10
\* ProcessingConfig.min_stroke_length, pixels
min_stroke_length == 5

\* getattr(self.config, 'canvas_width', 800), 'canvas_height', 600
canvas_width == 800
canvas_height == 600
\* one unit of a normalised coordinate or of a pressure is 1/NormScale
NormScale == 1000

IDLE == "IDLE"
ACTIVE == "ACTIVE"

Variants == {"P2", "DC"}

(* ------------------------------ inputs --------------------------------- *)
\* normalised positions (0, 0) and (0.005, 0.005): 4 px and 3 px apart on the
\* 800 x 600 canvas, 5 px in all
PosA == <<0, 0>>
PosB == <<5, 5>>

\* a ProcessedInkPoint as process_raw_point creates it (stroke_id = -1)
ProcessedInkPoint(pos, pr, ts) ==
    [x |-> pos[1], y |-> pos[2], pressure |-> pr, timestamp |-> ts, stroke_id |-> -1]

\* pen-down samples (pressure 0.8) at 0 s, 0.1 s and 2.0 s
PenDown ==
    {ProcessedInkPoint(PosA, 800, 0), ProcessedInkPoint(PosB, 800, 1),
     ProcessedInkPoint(PosA, 800, 20)}

\* the pen-up sample (pressure 0) at 0.2 s
PenUp == {ProcessedInkPoint(PosB, 0, 2)}

DetInputs == PenDown \cup PenUp

(* ------------------------------ state ---------------------------------- *)
VARIABLES
    variant,                \* which StrokeDetector implementation runs
    current_stroke_points,  \* StrokeDetector.current_stroke_points
    completed_strokes,      \* StrokeDetector.completed_strokes
    current_stroke_id,      \* StrokeDetector.current_stroke_id
    current_state,          \* StrokeDetector.current_state
    finalized_ids,          \* history: ids appended to completed_strokes, in order
    started_ids,            \* history: the ids stamped at a stroke start so far
    restamped,              \* history: some stroke start stamped an id of started_ids
    last,                   \* history: the last detector call and what it saw
    faults,                 \* history: internal errors raised inside finalize_current_stroke
    accepted,               \* history: the pressure > 0 points add_point took since the last stroke start
    pressure_threshold,     \* ProcessingConfig.pressure_threshold
    use_external_input,     \* start_processing(use_external_input=...)
    is_processing,          \* InkProcessingSystem.is_processing
    lock,                   \* holder of _stroke_detector_lock, or "free"
    pcMain,                 \* where the caller's thread is in process_raw_point / stop_processing
    pcWorker,               \* where the StrokeDetection thread is in its loop
    mainStrokes,            \* process_raw_point's local completed_strokes
    workerStrokes,          \* _stroke_detection_loop's local completed_strokes
    processed_point_buffer, \* queue between the point loop and the detection loop
    stroke_buffer,          \* deque of stroke records awaiting feature calculation
    total_strokes,          \* processing_stats['total_strokes']
    on_stroke_completed,    \* history: stroke ids handed to the on_stroke_completed callback
    on_point_processed,     \* history: the latest event handed to the on_point_processed callback
    samples                 \* history: raw samples the device has delivered to the controller

detVars == <<current_stroke_points, completed_strokes, current_stroke_id, current_state>>
histVars == <<finalized_ids, started_ids, restamped, last, faults, accepted>>
cfgVars == <<pressure_threshold, use_external_input>>
threadVars == <<is_processing, lock, pcMain, pcWorker, mainStrokes, workerStrokes>>
pipeVars == <<processed_point_buffer, stroke_buffer, total_strokes, on_stroke_completed,
              on_point_processed, samples>>
ctlVars == <<cfgVars, threadVars, pipeVars>>

(* ------------------------- BufferManager state ------------------------- *)
VARIABLES
    bm_point_buffer,        \* a queue.Queue(maxsize) made by create_point_buffer
    bm_stroke_buffer,       \* a deque(maxlen) made by create_stroke_buffer
    bm_event_buffer,        \* a queue.PriorityQueue(maxsize) made by create_event_buffer
    buffer_stats,           \* BufferManager._buffer_stats, by buffer name
    offered,                \* history: the items given to each buffer's add method, in order
    only_drop_pushes,       \* history: the buffer saw drop-oldest pushes only, and no pop
    bm_last                 \* history: the last BufferManager call, what it met and returned

bufVars == <<bm_point_buffer, bm_stroke_buffer, bm_event_buffer, buffer_stats,
             offered, only_drop_pushes, bm_last>>

VARIABLES
    bm_pc,                  \* where each thread is inside add_point_to_buffer / get_point_from_buffer
    bm_local,               \* each thread's locals: the item, the statistic being updated, its loaded value
    returned,               \* history: what each thread's last call returned
    performed               \* history: the pushes, pops and drops actually made on the point queue

concVars == <<bm_pc, bm_local, returned, performed>>

(* ------------------- worker loops and callbacks ------------------------ *)
VARIABLES
    loop_pc,                \* where each worker thread of each start_processing call is in its loop
    stop_event,             \* InkProcessingSystem.stop_event
    generation,             \* history: how many times start_processing has started threads
    cb_last,                \* history: how the latest callback invocation ended
    propagated,             \* history: an exception left _trigger_callback
    on_error_calls          \* history: invocations of the on_error callback

stopVars == <<loop_pc, stop_event, generation>>
cbVars == <<cb_last, propagated, on_error_calls>>

(* ---------------------- errors inside the loops ------------------------ *)
VARIABLES
    stage_failed,           \* history: the loops in which an iteration has raised
    on_error_reports        \* history: the loops whose handler called on_error, with the tag

stageVars == <<stage_failed, on_error_reports>>

(* ------------------------ feature calculation -------------------------- *)
VARIABLES
    on_features_calculated, \* history: stroke ids handed to the on_features_calculated callback
    total_features,         \* processing_stats['total_features']
    popped_strokes,         \* history: stroke ids the feature loop took from stroke_buffer
    last_features           \* history: the latest calculate_features call, its input size and result

featVars == <<on_features_calculated, total_features, popped_strokes, last_features>>

(* --------------------- initialize and shutdown ------------------------- *)
VARIABLES
    is_running,             \* InkProcessingSystem.is_running
    device_status,          \* RawDataCollector.device_status
    life_last               \* history: the latest initialize or shutdown call and how it ended

lifeVars == <<is_running, device_status, life_last>>

\* no on_point_processed event yet
NoEvent == [stroke_id |-> -1, is_stroke_start |-> FALSE, is_stroke_end |-> FALSE]

NoSpacing == [d |-> 0, dt |-> 0]

NoLifeCall == [op |-> "none", failing |-> "none", returned |-> "none", raised |-> FALSE]

(* ------------------- the BufferManager's clock ------------------------- *)
VARIABLES
    last_access_time,       \* _buffer_stats[name]['last_access_time'], by buffer name
    bm_now,                 \* time.time() as the BufferManager reads it
    sweep_last,             \* history: the latest cleanup_inactive_buffers call
    batch_last              \* history: the latest get_buffer_batch call

sweepVars == <<bm_now, sweep_last, batch_last>>

(* ------------------- the point processor's callers --------------------- *)
VARIABLES
    pp_results              \* history: each sample given to process_point and what came back

ppVars == <<pp_results>>

VARIABLES
    spacing,                \* the step (d, dt) of the evenly spaced samples being submitted
    vel_results             \* history: each evenly spaced sample and the point it came back as

velVars == <<spacing, vel_results>>

VARIABLES
    pipeline_access         \* history: when the pipeline last pushed to or popped from each of its buffers

useVars == <<pipeline_access>>

(* ------------------------- RawDataCollector ---------------------------- *)
VARIABLES
    collection_active,      \* RawDataCollector.collection_active
    collection_thread,      \* RawDataCollector.collection_thread: "none", "running" or "ended"
    total_points,           \* statistics['total_points']
    rdc_last                \* history: the latest start_collection / stop_collection call

rdcVars == <<collection_active, collection_thread, total_points, rdc_last>>

NoCollectorCall == [op |-> "none", returned |-> "none", raised |-> FALSE, was_active |-> FALSE]

\* the state no earlier section of the module touches
sideVars == <<stageVars, featVars, lifeVars, sweepVars, ppVars, velVars, useVars, rdcVars>>

\* the state of the components around the detector and the controller
extVars == <<bufVars, concVars, stopVars, cbVars, sideVars, last_access_time>>

\* what the BufferManager, the start/stop skeleton and the deliveries leave alone
outsideBuf == <<variant, detVars, histVars, ctlVars, stopVars, cbVars, sideVars>>
outsideStop == <<bufVars, concVars, cbVars, sideVars, last_access_time>>
outsideCb == <<bufVars, concVars, stopVars, sideVars, last_access_time>>

\* the threads start_processing creates, by thread name
LoopNames == {"PointProcessing", "StrokeDetection", "FeatureCalculation", "StatusMonitoring"}

\* one thread per loop for every start_processing call
LoopThreads == (1..MaxStarts) \X LoopNames

\* two producers and one consumer share the point queue
Producers == {"p1", "p2"}
Consumers == {"c1"}
BufferThreads == Producers \cup Consumers

NoLocals == [item |-> 0, stat |-> "none", reg |-> 0, after |-> "none"]

BufferNames == {"point", "stroke", "event"}

\* _register_buffer: the three counters start at 0
NewBufferStats == [total_added |-> 0, total_removed |-> 0, total_dropped |-> 0]

NoBufferCall == [op |-> "none", buffer |-> "none", result |-> "none", was_full |-> FALSE]

\* BufferManager.__init__ and the three create_*_buffer calls
BufferManagerInit ==
    /\ bm_point_buffer = <<>>
    /\ bm_stroke_buffer = <<>>
    /\ bm_event_buffer = <<>>
    /\ buffer_stats = [name \in BufferNames |-> NewBufferStats]
    /\ offered = [name \in BufferNames |-> <<>>]
    /\ only_drop_pushes = [name \in BufferNames |-> TRUE]
    /\ bm_last = NoBufferCall
    /\ bm_pc = [t \in BufferThreads |-> "idle"]
    /\ bm_local = [t \in BufferThreads |-> NoLocals]
    /\ returned = [t \in BufferThreads |-> "none"]
    /\ performed = NewBufferStats

(* --------------------------- pure helpers ------------------------------ *)
\* math.sqrt on the perfect squares the Positions produce
Sqrt(n) == CHOOSE r \in 0..n : r * r = n

RECURSIVE TotalLength(_)
TotalLength(points) ==
    IF Len(points) < 2 THEN 0
    ELSE LET n == Len(points)
             dx == (points[n].x * canvas_width - points[n-1].x * canvas_width) \div NormScale
             dy == (points[n].y * canvas_height - points[n-1].y * canvas_height) \div NormScale
         IN TotalLength(SubSeq(points, 1, n-1)) + Sqrt(dx * dx + dy * dy)

\* the docstring's "at least 3 points" instead of the coded 2
validate_stroke_three_points(points) ==
    IF Len(points) < 3 THEN FALSE
    ELSE IF TotalLength(points) < min_stroke_length THEN FALSE
    ELSE TRUE

validate_stroke(points) ==
    IF Len(points) < 2 THEN FALSE
    ELSE IF TotalLength(points) < min_stroke_length THEN FALSE
    ELSE TRUE

\* hasattr(first_point, 'event_type') and event_type == STROKE_END:
\* ProcessedInkPoint has no event_type field and nothing sets one
HasStrokeEndEvent(p) == FALSE

(* --------------------- detector as a record ---------------------------- *)
\* the detector's fields plus the two histories the operations extend
Det ==
    [current_stroke_points |-> current_stroke_points,
     completed_strokes |-> completed_strokes,
     current_stroke_id |-> current_stroke_id,
     current_state |-> current_state,
     finalized_ids |-> finalized_ids,
     started_ids |-> started_ids,
     restamped |-> restamped,
     faults |-> faults,
     accepted |-> accepted]

Stamp(p, id) == [p EXCEPT !.stroke_id = id]

StrokeRecordP2(d) ==
    [stroke_id |-> d.current_stroke_id,
     points |-> d.current_stroke_points,
     start_time |-> d.current_stroke_points[1].timestamp,
     end_time |-> d.current_stroke_points[Len(d.current_stroke_points)].timestamp,
     num_points |-> Len(d.current_stroke_points)]

StrokeRecordDC(d) ==
    [stroke_id |-> d.current_stroke_id,
     points |-> d.current_stroke_points,
     start_time |-> d.current_stroke_points[1].timestamp,
     end_time |-> d.current_stroke_points[Len(d.current_stroke_points)].timestamp,
     num_points |-> Len(d.current_stroke_points),
     is_valid |-> validate_stroke(d.current_stroke_points)]

(* ------------------- finalize_current_stroke --------------------------- *)
\* finalize_current_stroke without the `self.current_stroke_id += 1` of the
\* rejected branch
finalize_current_stroke_P2_rejected_keeps_id(d) ==
    IF d.current_stroke_points = <<>> THEN d
    ELSE IF validate_stroke(d.current_stroke_points)
         THEN [d EXCEPT !.completed_strokes = Append(@, StrokeRecordP2(d)),
                        !.finalized_ids = Append(@, d.current_stroke_id),
                        !.current_stroke_id = @ + 1,
                        !.current_stroke_points = <<>>]
         ELSE [d EXCEPT !.current_stroke_points = <<>>]

\* Phase2: only a validated stroke is stored; the id advances either way;
\* current_state is left to the caller
finalize_current_stroke_P2(d) ==
    IF d.current_stroke_points = <<>> THEN d
    ELSE IF validate_stroke(d.current_stroke_points)
         THEN [d EXCEPT !.completed_strokes = Append(@, StrokeRecordP2(d)),
                        !.finalized_ids = Append(@, d.current_stroke_id),
                        !.current_stroke_id = @ + 1,
                        !.current_stroke_points = <<>>]
         ELSE [d EXCEPT !.current_stroke_id = @ + 1,
                        !.current_stroke_points = <<>>]

\* finalize_current_stroke without `self.current_stroke_id += 1`
finalize_current_stroke_DC_id_kept(d) ==
    IF d.current_stroke_points = <<>> THEN [d EXCEPT !.current_state = IDLE]
    ELSE [d EXCEPT !.completed_strokes = Append(@, StrokeRecordDC(d)),
                   !.finalized_ids = Append(@, d.current_stroke_id),
                   !.current_stroke_points = <<>>,
                   !.current_state = IDLE]

\* Phase2_divscreen_color: every stroke is stored with its is_valid flag,
\* the id advances, the state returns to IDLE
finalize_current_stroke_DC(d) ==
    IF d.current_stroke_points = <<>> THEN [d EXCEPT !.current_state = IDLE]
    ELSE IF Len(d.current_stroke_points) = 1 /\ HasStrokeEndEvent(d.current_stroke_points[1])
         THEN [d EXCEPT !.current_stroke_points = <<>>, !.current_state = IDLE]
         ELSE [d EXCEPT !.completed_strokes = Append(@, StrokeRecordDC(d)),
                        !.finalized_ids = Append(@, d.current_stroke_id),
                        !.current_stroke_id = @ + 1,
                        !.current_stroke_points = <<>>,
                        !.current_state = IDLE]

(* ------------ finalize_current_stroke with an internal error ----------- *)
\* where the try block of finalize_current_stroke raises, the buffer not
\* empty: before the record is appended, after the append and before
\* `current_stroke_id += 1`, or after it and before the buffer is emptied
FinalizeFaults == {"validate", "stored", "incremented"}

\* Phase2, the try block cut short at `at`: the handler only logs, and
\* current_state is not assigned anywhere in the function
finalize_current_stroke_P2_raising(d, at) ==
    IF d.current_stroke_points = <<>> \/ at = "validate" THEN d
    ELSE LET stored == IF validate_stroke(d.current_stroke_points)
                       THEN [d EXCEPT !.completed_strokes = Append(@, StrokeRecordP2(d)),
                                      !.finalized_ids = Append(@, d.current_stroke_id)]
                       ELSE d
         IN IF at = "stored" THEN stored
            ELSE [stored EXCEPT !.current_stroke_id = @ + 1]

\* the except handler without `self.current_state = StrokeState.IDLE`
finalize_current_stroke_DC_raising_state_kept(d, at) ==
    IF d.current_stroke_points = <<>> THEN [d EXCEPT !.current_state = IDLE]
    ELSE IF at = "validate" THEN d
    ELSE LET stored == [d EXCEPT !.completed_strokes = Append(@, StrokeRecordDC(d)),
                                 !.finalized_ids = Append(@, d.current_stroke_id)]
         IN IF at = "stored" THEN stored
            ELSE [stored EXCEPT !.current_stroke_id = @ + 1]

\* Phase2_divscreen_color, the try block cut short at `at`: the handler logs
\* and sets current_state to IDLE
finalize_current_stroke_DC_raising(d, at) ==
    IF d.current_stroke_points = <<>> \/ at = "validate" THEN [d EXCEPT !.current_state = IDLE]
    ELSE LET stored == [d EXCEPT !.completed_strokes = Append(@, StrokeRecordDC(d)),
                                 !.finalized_ids = Append(@, d.current_stroke_id),
                                 !.current_state = IDLE]
         IN IF at = "stored" THEN stored
            ELSE [stored EXCEPT !.current_stroke_id = @ + 1]

(* ----------------------------- add_point ------------------------------- *)
\* the three places that begin a stroke: state ACTIVE, stamp, buffer = [point]
StartStroke(d, point) ==
    [d EXCEPT !.current_state = ACTIVE,
              !.current_stroke_points = <<Stamp(point, d.current_stroke_id)>>,
              !.started_ids = @ \cup {d.current_stroke_id},
              !.restamped = @ \/ d.current_stroke_id \in d.started_ids,
              !.accepted = <<point>>]

\* `self.current_stroke_points.insert(0, point)` for `.append(point)`
AppendPoint_at_front(d, point) ==
    [d EXCEPT !.current_stroke_points = <<Stamp(point, d.current_stroke_id)>> \o @,
              !.accepted = Append(@, point)]

AppendPoint(d, point) ==
    [d EXCEPT !.current_stroke_points = Append(@, Stamp(point, d.current_stroke_id)),
              !.accepted = Append(@, point)]

\* add_point with `point.pressure >= 0` for `point.pressure > 0`
add_point_P2_starts_on_zero(d, point) ==
    IF point.pressure >= 0
    THEN IF d.current_state = IDLE THEN StartStroke(d, point)
         ELSE AppendPoint(d, point)
    ELSE d

add_point_P2(d, point) ==
    IF point.pressure > 0
    THEN IF d.current_state = IDLE THEN StartStroke(d, point)
         ELSE AppendPoint(d, point)
    ELSE IF d.current_state = ACTIVE /\ d.current_stroke_points # <<>>
         THEN [finalize_current_stroke_P2(d) EXCEPT !.current_state = IDLE]
         ELSE d

add_point_DC(d, point) ==
    IF point.pressure > 0
    THEN LET d0 == IF d.current_state = ACTIVE /\ d.current_stroke_points = <<>>
                   THEN [d EXCEPT !.current_state = IDLE] ELSE d
         IN IF d0.current_state = IDLE THEN StartStroke(d0, point)
            ELSE IF d0.current_stroke_points # <<>>
                 THEN LET last_point == d0.current_stroke_points[Len(d0.current_stroke_points)]
                          time_gap == point.timestamp - last_point.timestamp
                      IN IF time_gap > StaleGap
                         THEN StartStroke(finalize_current_stroke_DC(d0), point)
                         ELSE AppendPoint(d0, point)
                 ELSE StartStroke(d0, point)
    ELSE IF d.current_state = ACTIVE /\ d.current_stroke_points # <<>>
         THEN [finalize_current_stroke_DC(d) EXCEPT !.current_state = IDLE]
         ELSE d

finalize_current_stroke(d) ==
    IF variant = "P2" THEN finalize_current_stroke_P2(d) ELSE finalize_current_stroke_DC(d)

add_point(d, point) ==
    IF variant = "P2" THEN add_point_P2(d, point) ELSE add_point_DC(d, point)

finalize_current_stroke_raising(d, at) ==
    IF variant = "P2" THEN finalize_current_stroke_P2_raising(d, at)
    ELSE finalize_current_stroke_DC_raising(d, at)

\* add_point on the paths that call finalize_current_stroke, the call ending
\* in its except handler: pen up on an active stroke, and (divscreen_color)
\* the stale-gap split
add_point_finalize_raising(d, point, at) ==
    IF point.pressure > 0
    THEN StartStroke([finalize_current_stroke_DC_raising(d, at) EXCEPT !.faults = @ + 1], point)
    ELSE [finalize_current_stroke_raising(d, at) EXCEPT !.current_state = IDLE,
                                                        !.faults = @ + 1]

\* force_reset_state exists in Phase2_divscreen_color only
force_reset_state(d) ==
    [d EXCEPT !.current_stroke_points = <<>>, !.current_state = IDLE]

\* get_completed_strokes: copy, then clear
get_completed_strokes(d) ==
    [d EXCEPT !.completed_strokes = <<>>]

(* -------------------- sequential detector actions ---------------------- *)
SetDet(d) ==
    /\ current_stroke_points' = d.current_stroke_points
    /\ completed_strokes' = d.completed_strokes
    /\ current_stroke_id' = d.current_stroke_id
    /\ current_state' = d.current_state
    /\ finalized_ids' = d.finalized_ids
    /\ started_ids' = d.started_ids
    /\ restamped' = d.restamped
    /\ faults' = d.faults
    /\ accepted' = d.accepted

\* the time gap the stale check of add_point computes, when there is a last point
IsStale(d, point) ==
    /\ d.current_stroke_points # <<>>
    /\ point.timestamp - d.current_stroke_points[Len(d.current_stroke_points)].timestamp > StaleGap

\* the three-sample scenario: (0.8, t=0), (0.8, t=0.1), (0, t=0.2), 5 px apart
Scenario ==
    <<ProcessedInkPoint(PosA, 800, 0), ProcessedInkPoint(PosB, 800, 1),
      ProcessedInkPoint(PosB, 0, 2)>>

\* how many samples of Scenario the latest add_point calls have fed, counted
\* from an Idle detector with nothing completed
ScenarioStep(op, point) ==
    IF op # "add_point" THEN 0
    ELSE IF last.scenario \in 1..2 /\ point = Scenario[last.scenario + 1]
         THEN last.scenario + 1
    ELSE IF current_state = IDLE /\ current_stroke_points = <<>>
            /\ completed_strokes = <<>> /\ point = Scenario[1]
         THEN 1
    ELSE 0

\* what a call was given and the state it found
Call(op, point) ==
    [op |-> op,
     pressure |-> point.pressure,
     pre_state |-> current_state,
     stale |-> IsStale(Det, point),
     scenario |-> ScenarioStep(op, point),
     fault |-> "none"]

NoPoint == [pressure |-> -1, timestamp |-> 0]

NoCall ==
    [op |-> "none", pressure |-> -1, pre_state |-> IDLE, stale |-> FALSE, scenario |-> 0,
     fault |-> "none"]

\* the caps that keep the model finite
WithinBounds(d) ==
    /\ d.current_stroke_id <= MaxId
    /\ Len(d.current_stroke_points) <= MaxPoints
    /\ Len(d.completed_strokes) <= MaxCompleted
    /\ Len(d.finalized_ids) <= MaxId

AddPointWith(point) ==
    /\ WithinBounds(add_point(Det, point))
    /\ SetDet(add_point(Det, point))
    /\ last' = Call("add_point", point)
    /\ UNCHANGED <<extVars, variant, ctlVars>>

AddPoint == \E point \in DetInputs : AddPointWith(point)

\* add_point reaches finalize_current_stroke and the finalize step raises inside
AddPointFinalizeRaisesWith(point, at) ==
    /\ current_state = ACTIVE
    /\ current_stroke_points # <<>>
    /\ \/ point.pressure = 0
       \/ variant = "DC" /\ point.pressure > 0 /\ IsStale(Det, point)
    /\ faults < MaxFaults
    /\ WithinBounds(add_point_finalize_raising(Det, point, at))
    /\ SetDet(add_point_finalize_raising(Det, point, at))
    /\ last' = [Call("add_point", point) EXCEPT !.fault = at]
    /\ UNCHANGED <<extVars, variant, ctlVars>>

AddPointFinalizeRaises ==
    \E point \in DetInputs, at \in FinalizeFaults : AddPointFinalizeRaisesWith(point, at)

ForceResetState ==
    /\ variant = "DC"
    /\ pcMain = "idle"
    /\ SetDet(force_reset_state(Det))
    /\ last' = Call("force_reset_state", NoPoint)
    /\ UNCHANGED <<extVars, variant, ctlVars>>

GetCompletedStrokes ==
    /\ completed_strokes # <<>>
    /\ SetDet(get_completed_strokes(Det))
    /\ last' = Call("get_completed_strokes", NoPoint)
    /\ UNCHANGED <<extVars, variant, ctlVars>>

vars == <<variant, detVars, histVars, ctlVars, extVars>>

\* StrokeDetector.__init__
DetectorInit ==
    /\ current_stroke_points = <<>>
    /\ completed_strokes = <<>>
    /\ current_stroke_id = 0
    /\ current_state = IDLE
    /\ finalized_ids = <<>>
    /\ started_ids = {}
    /\ restamped = FALSE
    /\ last = NoCall
    /\ faults = 0
    /\ accepted = <<>>

\* InkProcessingSystem.__init__
ControllerInit ==
    /\ is_processing = FALSE
    /\ lock = "free"
    /\ pcMain = "idle"
    /\ pcWorker = "off"
    /\ mainStrokes = <<>>
    /\ workerStrokes = <<>>
    /\ processed_point_buffer = <<>>
    /\ stroke_buffer = <<>>
    /\ total_strokes = 0
    /\ on_stroke_completed = <<>>
    /\ on_point_processed = NoEvent
    /\ samples = 0
    /\ BufferManagerInit
    /\ loop_pc = [th \in LoopThreads |-> "none"]
    /\ stop_event = FALSE
    /\ generation = 0
    /\ cb_last = "none"
    /\ propagated = FALSE
    /\ on_error_calls = 0
    /\ stage_failed = {}
    /\ last_access_time = [name \in BufferNames |-> 0]
    /\ bm_now = 0
    /\ pp_results = <<>>
    /\ spacing = NoSpacing
    /\ vel_results = <<>>
    /\ collection_active = FALSE
    /\ collection_thread = "none"
    /\ total_points = 0
    /\ rdc_last = NoCollectorCall
    /\ pipeline_access = [name \in BufferNames |-> 0]
    /\ sweep_last = [called |-> FALSE, cleared |-> {}, returned |-> 0]
    /\ batch_last = [called |-> FALSE, items |-> <<>>, late |-> 0]
    /\ is_running = FALSE
    /\ device_status = "DISCONNECTED"
    /\ life_last = NoLifeCall
    /\ on_features_calculated = <<>>
    /\ total_features = 0
    /\ popped_strokes = <<>>
    /\ last_features = [called |-> FALSE, num_points |-> 0, blocks |-> {}]
    /\ on_error_reports = {}

\* a detector on its own, driven call by call
Init ==
    /\ variant \in Variants
    /\ pressure_threshold = 0
    /\ use_external_input = TRUE
    /\ DetectorInit
    /\ ControllerInit

Next ==
    \/ AddPoint
    \/ ForceResetState
    \/ GetCompletedStrokes

Spec == Init /\ [][Next]_vars

\* the detector driven call by call, finalize_current_stroke free to raise
FaultNext ==
    \/ AddPoint
    \/ AddPointFinalizeRaises
    \/ ForceResetState
    \/ GetCompletedStrokes

SpecFault == Init /\ [][FaultNext]_vars

(* ========================= point processor ============================= *)
\* an Optional[ProcessedInkPoint] is a sequence of at most one point
None == <<>>

\* PointProcessor.device_bounds = (0, 0, 1000, 1000)
DeviceMin == 0
DeviceMax == 1000

\* float('nan') in a field of a RawInkPoint: arithmetic on it gives nan and
\* every ordered comparison with it is False
NaN == -1000000

\* a < b and a <= b as Python evaluates them on floats
Lt(a, b) == a # NaN /\ b # NaN /\ a < b
Le(a, b) == a # NaN /\ b # NaN /\ a <= b

\* the builtins min(a, b) and max(a, b): the first argument is kept unless
\* the second compares smaller (larger)
py_min(a, b) == IF Lt(b, a) THEN b ELSE a
py_max(a, b) == IF Lt(a, b) THEN b ELSE a

\* max(lo, min(hi, v))
Clamp(v, lo, hi) == py_max(lo, py_min(hi, v))

\* max(0.0, min(1.0, (x - min_x) / width)), in units of 1/NormScale
normalize_coordinates(x, y) ==
    LET width == DeviceMax - DeviceMin
        height == DeviceMax - DeviceMin
        ratio(v, lo, len) == IF v = NaN THEN NaN ELSE ((v - lo) * NormScale) \div len
    IN <<Clamp(ratio(x, DeviceMin, width), 0, NormScale),
         Clamp(ratio(y, DeviceMin, height), 0, NormScale)>>

\* PointProcessor.process_raw_point: normalise, clamp the pressure, stroke_id = -1
PP_process_raw_point(raw) ==
    ProcessedInkPoint(normalize_coordinates(raw.x, raw.y),
                      Clamp(raw.pressure, 0, NormScale), raw.timestamp)

\* PointProcessor.process_point: the pressure gate, then process_raw_point
process_point(raw) ==
    IF Lt(raw.pressure, pressure_threshold) THEN None
    ELSE <<PP_process_raw_point(raw)>>

\* PointProcessor.validate_point_quality with no previous points, in units of
\* 1/NormScale: halved for a coordinate outside [0, 1], halved for a pressure
\* outside [0, 1], times 0.3 for a timestamp <= 0
validate_point_quality(point) ==
    LET in_range(v) == Le(0, v) /\ Le(v, NormScale)
        s0 == NormScale
        s1 == IF ~(in_range(point.x) /\ in_range(point.y)) THEN s0 \div 2 ELSE s0
        s2 == IF ~in_range(point.pressure) THEN s1 \div 2 ELSE s1
        s3 == IF Le(point.timestamp, 0) THEN (s2 * 3) \div 10 ELSE s2
    IN Clamp(s3, 0, NormScale)

\* PointProcessor.calculate_velocity: distance / time_delta, in thousandths of
\* the normalised unit per second; 0.0 when the time does not advance
calculate_velocity(current_point, previous_point) ==
    LET time_delta == current_point.timestamp - previous_point.timestamp
        dx == current_point.x - previous_point.x
        dy == current_point.y - previous_point.y
    IN IF time_delta <= 0 THEN 0
       ELSE (Sqrt(dx * dx + dy * dy) * TicksPerSecond) \div time_delta

\* ProcessedInkPoint.velocity as process_raw_point leaves it: 0.0 from the
\* constructor, calculate_velocity against the last of the previous points
\* when there is one
velocity(point, previous_points) ==
    IF Len(previous_points) = 0 THEN 0
    ELSE calculate_velocity(point, previous_points[Len(previous_points)])

\* process_point calls process_raw_point(raw_point, previous_points=[])
process_point_previous_points == <<>>

\* PointProcessor._create_fallback_point sets confidence=0.5
FallbackConfidence == NormScale \div 2

\* whether a statement of process_raw_point's try block raises: on float
\* fields, nan included, none of them does
TryBlockRaises(raw) == FALSE

\* ProcessedInkPoint.confidence as process_raw_point leaves it: step 4 of the
\* try block, or the fallback point of the except branch
confidence(raw) ==
    IF TryBlockRaises(raw) THEN FallbackConfidence
    ELSE validate_point_quality(PP_process_raw_point(raw))

RawInkPoint(x, y, pr, ts) == [x |-> x, y |-> y, pressure |-> pr, timestamp |-> ts]

\* device samples: pen down at (0,0) and (5,5), a light touch (0.03), pen up
RawInputs ==
    {RawInkPoint(0, 0, 800, 0), RawInkPoint(5, 5, 800, 1), RawInkPoint(0, 0, 800, 20),
     RawInkPoint(5, 5, 30, 1), RawInkPoint(5, 5, 0, 2)}

\* where an evenly spaced sequence starts, its displacement per sample (device
\* units) and its time step (tenths of a second)
Starts == {0, 100, 500}
Displacements == {10, 20, 50}
TimeSteps == {1, 2, 5}

\* configured pressure_threshold values: 0.0 and 0.05
Thresholds == {0, 50}

\* malformed device samples: x is nan, y is nan, the pressure is nan, the
\* pressure is -0.3
MalformedInputs ==
    {RawInkPoint(NaN, 5, 800, 1), RawInkPoint(5, NaN, 800, 1),
     RawInkPoint(5, 5, NaN, 1), RawInkPoint(5, 5, -300, 1)}

(* ============================ controller =============================== *)
Ids(strokes) == [i \in 1..Len(strokes) |-> strokes[i].stroke_id]

\* the callback slots the caller has filled
callbacks == {"on_stroke_completed", "on_error"}

\* _trigger_callback without its try/except
trigger_callback_uncaught(event_type, raises) ==
    IF event_type \in callbacks
    THEN [outcome |-> IF raises THEN "raised" ELSE "returned", propagated |-> raises,
          on_error |-> 0]
    ELSE [outcome |-> "none", propagated |-> FALSE, on_error |-> 0]

\* _trigger_callback: a registered callback is called; an Exception it raises
\* is caught and logged, nothing else is called
trigger_callback(event_type, raises) ==
    IF event_type \in callbacks
    THEN [outcome |-> IF raises THEN "raised" ELSE "returned", propagated |-> FALSE,
          on_error |-> 0]
    ELSE [outcome |-> "none", propagated |-> FALSE, on_error |-> 0]

\* the loop over the drained strokes: each is appended to stroke_buffer,
\* counted and handed to on_stroke_completed; an exception that leaves
\* _trigger_callback ends the loop after the stroke it was raised for
DeliverStrokes(strokes, raises) ==
    LET cb == trigger_callback("on_stroke_completed", raises)
    IN IF strokes = <<>>
       THEN [delivered |-> <<>>, outcome |-> "none", propagated |-> FALSE, on_error |-> 0]
       ELSE [delivered |-> IF cb.propagated THEN SubSeq(strokes, 1, 1) ELSE strokes,
             outcome |-> cb.outcome, propagated |-> cb.propagated, on_error |-> cb.on_error]

SetCallbackHistory(d) ==
    /\ cb_last' = d.outcome
    /\ propagated' = (propagated \/ d.propagated)
    /\ on_error_calls' = on_error_calls + d.on_error

\* stop_processing that finalizes the unfinished stroke instead of dropping it
discard_unfinished_stroke_finalizing(d) ==
    IF d.current_stroke_points # <<>>
    THEN [finalize_current_stroke(d) EXCEPT !.current_state = IDLE]
    ELSE d

\* stop_processing, first part: an unfinished stroke is dropped
discard_unfinished_stroke(d) ==
    IF d.current_stroke_points # <<>>
    THEN [d EXCEPT !.current_stroke_points = <<>>, !.current_state = IDLE]
    ELSE d

\* the on_point_processed event of a point given to add_point: the id is read
\* from the detector after the call, and is_stroke_start is
\* `old_points_count == 0 and len(current_stroke_points) == 1`
point_event(d, point) ==
    LET after == add_point(d, point)
    IN [stroke_id |-> after.current_stroke_id,
        is_stroke_start |-> (Len(d.current_stroke_points) = 0
                             /\ Len(after.current_stroke_points) = 1),
        is_stroke_end |-> FALSE]

\* the on_point_processed event emitted for each drained stroke that has points
end_event(stroke) ==
    [stroke_id |-> stroke.stroke_id, is_stroke_start |-> FALSE, is_stroke_end |-> TRUE]

\* on_point_processed after the loop over the drained strokes
AfterEndEvents(strokes) ==
    LET with_points == SelectSeq(strokes, LAMBDA st : st.points # <<>>)
    IN IF with_points = <<>> THEN on_point_processed
       ELSE end_event(with_points[Len(with_points)])

\* what process_raw_point does to the detector before it drains it, and
\* whether it goes on to get_completed_strokes
PRP_Detector(raw) ==
    IF raw.pressure = 0
    THEN IF current_state = ACTIVE /\ process_point(raw) # None
         THEN add_point(Det, process_point(raw)[1])
         ELSE Det
    ELSE IF process_point(raw) = None THEN Det
         ELSE add_point(Det, process_point(raw)[1])

\* process_raw_point handed a processed point to stroke_detector.add_point
PRP_Forwards(raw) ==
    IF raw.pressure = 0
    THEN current_state = ACTIVE /\ process_point(raw) # None
    ELSE process_point(raw) # None

\* the value process_raw_point returns: True at the end of the pen-up branch
\* whatever happened in it, False for a filtered sample, True after add_point
PRP_Returns(raw) ==
    IF raw.pressure = 0 THEN TRUE
    ELSE process_point(raw) # None

PRP_Drains(raw) ==
    raw.pressure = 0 /\ current_state = ACTIVE /\ process_point(raw) # None

\* process_raw_point up to its call of get_completed_strokes (pen up on an
\* active stroke) or to its return (every other sample); the lock is taken here
ProcessRawPointWith(raw) ==
    /\ use_external_input
    /\ pcMain = "idle"
    /\ lock = "free"
    /\ samples < MaxSamples
    /\ samples' = samples + 1
    /\ WithinBounds(PRP_Detector(raw))
    /\ SetDet(PRP_Detector(raw))
    /\ last' = Call("process_raw_point", raw)
    /\ IF PRP_Drains(raw)
       THEN lock' = "main" /\ pcMain' = "copy"
       ELSE lock' = "free" /\ pcMain' = "idle"
    /\ on_point_processed' = IF raw.pressure # 0 /\ process_point(raw) # None
                             THEN point_event(Det, process_point(raw)[1])
                             ELSE on_point_processed
    /\ UNCHANGED <<extVars, variant, cfgVars, is_processing, pcWorker, mainStrokes, workerStrokes,
                   processed_point_buffer, stroke_buffer, total_strokes, on_stroke_completed>>

ProcessRawPoint == \E raw \in RawInputs : ProcessRawPointWith(raw)

\* get_completed_strokes in process_raw_point: strokes = completed_strokes.copy()
MainCopy ==
    /\ pcMain = "copy"
    /\ mainStrokes' = completed_strokes
    /\ pcMain' = "clear"
    /\ UNCHANGED <<extVars, variant, detVars, histVars, cfgVars, is_processing, lock, pcWorker, workerStrokes, pipeVars>>

\* get_completed_strokes in process_raw_point: completed_strokes.clear()
MainClear ==
    /\ pcMain = "clear"
    /\ completed_strokes' = <<>>
    /\ pcMain' = "deliver"
    /\ UNCHANGED <<extVars, variant, current_stroke_points, current_stroke_id, current_state, histVars,
                   cfgVars, is_processing, lock, pcWorker, mainStrokes, workerStrokes, pipeVars>>

\* process_raw_point: the loop over the drained strokes, then the lock is released
MainDeliverWith(raises) ==
    /\ pcMain = "deliver"
    /\ raises => mainStrokes # <<>>
    /\ stroke_buffer' = stroke_buffer \o DeliverStrokes(mainStrokes, raises).delivered
    /\ total_strokes' = total_strokes + Len(DeliverStrokes(mainStrokes, raises).delivered)
    /\ on_stroke_completed' =
          on_stroke_completed \o Ids(DeliverStrokes(mainStrokes, raises).delivered)
    /\ SetCallbackHistory(DeliverStrokes(mainStrokes, raises))
    /\ on_point_processed' = AfterEndEvents(DeliverStrokes(mainStrokes, raises).delivered)
    /\ mainStrokes' = <<>>
    /\ lock' = "free"
    /\ pcMain' = "idle"
    /\ UNCHANGED <<outsideCb, variant, detVars, histVars, cfgVars, is_processing, pcWorker, workerStrokes,
                   processed_point_buffer, samples>>

\* the on_stroke_completed callback returns or raises
MainDeliver == \E raises \in BOOLEAN : MainDeliverWith(raises)

\* start_processing: flags set, the StrokeDetection thread started
StartProcessing ==
    /\ ~is_processing
    /\ pcMain = "idle"
    /\ pcWorker = "off"
    /\ is_processing' = TRUE
    /\ pcWorker' = "get"
    /\ UNCHANGED <<extVars, variant, detVars, histVars, cfgVars, lock, pcMain, mainStrokes, workerStrokes, pipeVars>>

\* stop_processing up to the joins: the unfinished stroke is dropped, the flag cleared
StopProcessing ==
    /\ is_processing
    /\ pcMain = "idle"
    /\ SetDet(discard_unfinished_stroke(Det))
    /\ last' = Call("stop_processing", NoPoint)
    /\ is_processing' = FALSE
    /\ pcMain' = "join"
    /\ UNCHANGED <<extVars, variant, cfgVars, lock, pcWorker, mainStrokes, workerStrokes, pipeVars>>

\* thread.join(timeout=2.0) returns because the thread ended
JoinDone ==
    /\ pcMain = "join"
    /\ pcWorker = "off"
    /\ pcMain' = "idle"
    /\ UNCHANGED <<extVars, variant, detVars, histVars, cfgVars, is_processing, lock, pcWorker,
                   mainStrokes, workerStrokes, pipeVars>>

\* thread.join(timeout=2.0) returns on its timeout, the thread still alive
JoinTimeout ==
    /\ pcMain = "join"
    /\ pcWorker # "off"
    /\ pcMain' = "idle"
    /\ UNCHANGED <<extVars, variant, detVars, histVars, cfgVars, is_processing, lock, pcWorker,
                   mainStrokes, workerStrokes, pipeVars>>

\* _point_processing_loop (internal mode): one raw point processed and queued
PointLoopWith(raw) ==
    /\ is_processing
    /\ ~use_external_input
    /\ process_point(raw) # None
    /\ Len(processed_point_buffer) < MaxBuf
    /\ samples < MaxSamples
    /\ samples' = samples + 1
    /\ processed_point_buffer' = Append(processed_point_buffer, process_point(raw)[1])
    /\ UNCHANGED <<extVars, variant, detVars, histVars, cfgVars, threadVars, stroke_buffer,
                   total_strokes, on_stroke_completed, on_point_processed>>

PointLoop == \E raw \in RawInputs : PointLoopWith(raw)

\* _stroke_detection_loop: the while condition fails, the thread ends
WorkerExit ==
    /\ pcWorker = "get"
    /\ ~is_processing
    /\ pcWorker' = "off"
    /\ UNCHANGED <<extVars, variant, detVars, histVars, cfgVars, is_processing, lock, pcMain,
                   mainStrokes, workerStrokes, pipeVars>>

\* _stroke_detection_loop: the while condition holds, the thread goes on to
\* processed_point_buffer.get(timeout=0.05)
WorkerTest ==
    /\ pcWorker = "get"
    /\ is_processing
    /\ pcWorker' = "take"
    /\ UNCHANGED <<extVars, variant, detVars, histVars, cfgVars, is_processing, lock, pcMain,
                   mainStrokes, workerStrokes, pipeVars>>

\* _stroke_detection_loop: a point is taken from the queue and given to
\* add_point; the lock is not taken
WorkerAddPoint ==
    /\ pcWorker = "take"
    /\ processed_point_buffer # <<>>
    /\ WithinBounds(add_point(Det, Head(processed_point_buffer)))
    /\ SetDet(add_point(Det, Head(processed_point_buffer)))
    /\ last' = Call("add_point", Head(processed_point_buffer))
    /\ processed_point_buffer' = Tail(processed_point_buffer)
    /\ pcWorker' = "copy"
    /\ on_point_processed' = point_event(Det, Head(processed_point_buffer))
    /\ UNCHANGED <<extVars, variant, cfgVars, is_processing, lock, pcMain, mainStrokes, workerStrokes,
                   stroke_buffer, total_strokes, on_stroke_completed, samples>>

\* _stroke_detection_loop: queue.Empty after the 0.05 s timeout
WorkerNoPoint ==
    /\ pcWorker = "take"
    /\ processed_point_buffer = <<>>
    /\ pcWorker' = "copy"
    /\ UNCHANGED <<extVars, variant, detVars, histVars, cfgVars, is_processing, lock, pcMain,
                   mainStrokes, workerStrokes, pipeVars>>

\* get_completed_strokes in the loop: strokes = completed_strokes.copy()
WorkerCopy ==
    /\ pcWorker = "copy"
    /\ workerStrokes' = completed_strokes
    /\ pcWorker' = "clear"
    /\ UNCHANGED <<extVars, variant, detVars, histVars, cfgVars, is_processing, lock, pcMain, mainStrokes, pipeVars>>

\* get_completed_strokes in the loop: completed_strokes.clear()
WorkerClear ==
    /\ pcWorker = "clear"
    /\ completed_strokes' = <<>>
    /\ pcWorker' = "deliver"
    /\ UNCHANGED <<extVars, variant, current_stroke_points, current_stroke_id, current_state, histVars,
                   cfgVars, is_processing, lock, pcMain, mainStrokes, workerStrokes, pipeVars>>

\* the loop over the drained strokes: stroke_buffer, total_strokes, callback
WorkerDeliverWith(raises) ==
    /\ pcWorker = "deliver"
    /\ raises => workerStrokes # <<>>
    /\ stroke_buffer' = stroke_buffer \o DeliverStrokes(workerStrokes, raises).delivered
    /\ total_strokes' = total_strokes + Len(DeliverStrokes(workerStrokes, raises).delivered)
    /\ on_stroke_completed' =
          on_stroke_completed \o Ids(DeliverStrokes(workerStrokes, raises).delivered)
    /\ SetCallbackHistory(DeliverStrokes(workerStrokes, raises))
    /\ on_point_processed' = AfterEndEvents(DeliverStrokes(workerStrokes, raises).delivered)
    /\ workerStrokes' = <<>>
    /\ pcWorker' = "get"
    /\ UNCHANGED <<outsideCb, variant, detVars, histVars, cfgVars, is_processing, lock, pcMain, mainStrokes,
                   processed_point_buffer, samples>>

\* the on_stroke_completed callback returns or raises
WorkerDeliver == \E raises \in BOOLEAN : WorkerDeliverWith(raises)

\* a started pipeline in either input mode, under either detector
CtlInit ==
    /\ variant \in Variants
    /\ pressure_threshold \in Thresholds
    /\ use_external_input \in BOOLEAN
    /\ DetectorInit
    /\ ControllerInit

CtlNext ==
    \/ StartProcessing
    \/ ProcessRawPoint
    \/ MainCopy
    \/ MainClear
    \/ MainDeliver
    \/ ForceResetState
    \/ StopProcessing
    \/ JoinDone
    \/ JoinTimeout
    \/ PointLoop
    \/ WorkerExit
    \/ WorkerTest
    \/ WorkerAddPoint
    \/ WorkerNoPoint
    \/ WorkerCopy
    \/ WorkerClear
    \/ WorkerDeliver

SpecCtl == CtlInit /\ [][CtlNext]_vars

(* ======================== feature calculation ========================== *)
\* the blocks of a feature bundle
FeatureBlocks ==
    {"basic_statistics", "pressure_dynamics", "rhythm_features", "geometric_features"}

\* the empty dict
NoFeatures == [blocks |-> {}, point_count |-> 0]

\* FeatureCalculator.calculate_features: fewer than two points give {},
\* otherwise the four blocks; an exception inside gives {} as well
calculate_features(stroke_points, raises) ==
    IF Len(stroke_points) < 2 THEN NoFeatures
    ELSE IF raises THEN NoFeatures
    ELSE [blocks |-> FeatureBlocks, point_count |-> Len(stroke_points)]

\* one iteration of _feature_calculation_loop with a stroke waiting: the
\* stroke is taken from the left of stroke_buffer; a non-empty bundle goes to
\* on_features_calculated and is counted, an empty one is only logged
FeatureCalculationWith(raises) ==
    /\ is_processing
    /\ stroke_buffer # <<>>
    /\ raises => Len(Head(stroke_buffer).points) >= 2
    /\ stroke_buffer' = Tail(stroke_buffer)
    /\ popped_strokes' = Append(popped_strokes, Head(stroke_buffer).stroke_id)
    /\ last_features' =
          [called |-> TRUE, num_points |-> Len(Head(stroke_buffer).points),
           blocks |-> calculate_features(Head(stroke_buffer).points, raises).blocks]
    /\ IF calculate_features(Head(stroke_buffer).points, raises).blocks # {}
       THEN /\ on_features_calculated' =
                 Append(on_features_calculated, Head(stroke_buffer).stroke_id)
            /\ total_features' = total_features + 1
       ELSE UNCHANGED <<on_features_calculated, total_features>>
    /\ UNCHANGED <<bufVars, concVars, sweepVars, last_access_time, stopVars, cbVars, stageVars, lifeVars, ppVars, velVars, useVars, rdcVars, variant, detVars,
                   histVars, cfgVars, threadVars, processed_point_buffer, total_strokes,
                   on_stroke_completed, on_point_processed, samples>>

FeatureCalculation == \E raises \in BOOLEAN : FeatureCalculationWith(raises)

\* the controller with its feature-calculation thread
FeatNext ==
    \/ CtlNext
    \/ FeatureCalculation

SpecFeat == CtlInit /\ [][FeatNext]_vars

(* =========================== BufferManager ============================= *)
\* queue.Queue.full(): maxsize reached
Full(q) == Len(q) >= BufCap

StatField(stat_type) ==
    CASE stat_type = "added" -> "total_added"
      [] stat_type = "removed" -> "total_removed"
      [] stat_type = "dropped" -> "total_dropped"

\* _update_buffer_stats for the three counters: `stats[name][field] += value`
update_buffer_stats(stats, buffer_name, stat_type, value) ==
    [stats EXCEPT ![buffer_name][StatField(stat_type)] = @ + value]

\* add_point_to_buffer that evicts the newest item (the tail) when full
add_point_to_buffer_evicting_newest(q, stats, point, drop_on_full) ==
    LET evicts == drop_on_full /\ Full(q) /\ q # <<>>
        q1 == IF evicts THEN SubSeq(q, 1, Len(q) - 1) ELSE q
        s1 == IF evicts THEN update_buffer_stats(stats, "point", "dropped", 1) ELSE stats
    IN IF Full(q1)
       THEN [buffer |-> q1, stats |-> update_buffer_stats(s1, "point", "dropped", 1),
             result |-> "False"]
       ELSE [buffer |-> Append(q1, point),
             stats |-> update_buffer_stats(s1, "point", "added", 1), result |-> "True"]

\* add_point_to_buffer run by one thread with nothing else touching the queue:
\* the eviction when drop_on_full and full, then put(timeout), which ends in
\* queue.Full when the queue is still full
add_point_to_buffer(q, stats, point, drop_on_full) ==
    LET evicts == drop_on_full /\ Full(q) /\ q # <<>>
        q1 == IF evicts THEN Tail(q) ELSE q
        s1 == IF evicts THEN update_buffer_stats(stats, "point", "dropped", 1) ELSE stats
    IN IF Full(q1)
       THEN [buffer |-> q1, stats |-> update_buffer_stats(s1, "point", "dropped", 1),
             result |-> "False"]
       ELSE [buffer |-> Append(q1, point),
             stats |-> update_buffer_stats(s1, "point", "added", 1), result |-> "True"]

\* get_point_from_buffer: buffer.get(timeout), None on queue.Empty
get_point_from_buffer(q, stats) ==
    IF q = <<>> THEN [buffer |-> q, stats |-> stats, result |-> "None"]
    ELSE [buffer |-> Tail(q), stats |-> update_buffer_stats(stats, "point", "removed", 1),
          result |-> "item"]

\* deque(maxlen).append: the leftmost item falls out when the deque is full
deque_append(dq, item) ==
    IF Len(dq) >= BufCap THEN Append(Tail(dq), item) ELSE Append(dq, item)

\* add_stroke_to_buffer: the drop is counted first, then the append, always True
add_stroke_to_buffer(dq, stats, stroke) ==
    LET s1 == IF Len(dq) >= BufCap
              THEN update_buffer_stats(stats, "stroke", "dropped", 1) ELSE stats
    IN [buffer |-> deque_append(dq, stroke),
        stats |-> update_buffer_stats(s1, "stroke", "added", 1), result |-> "True"]

\* get_stroke_from_buffer: popleft, None when empty
get_stroke_from_buffer(dq, stats) ==
    IF dq = <<>> THEN [buffer |-> dq, stats |-> stats, result |-> "None"]
    ELSE [buffer |-> Tail(dq), stats |-> update_buffer_stats(stats, "stroke", "removed", 1),
          result |-> "item"]

\* (priority, time.time(), event) tuples compare by priority, then by time
ItemBefore(a, b) == a[1] < b[1] \/ (a[1] = b[1] /\ a[2] < b[2])

\* PriorityQueue.put on a queue kept in the order get() returns its items
PriorityPut(pq, item) ==
    LET k == Cardinality({i \in 1..Len(pq) : ItemBefore(pq[i], item)})
    IN SubSeq(pq, 1, k) \o <<item>> \o SubSeq(pq, k + 1, Len(pq))

\* add_event_to_buffer: put(timeout) first; buffer_name is assigned after it,
\* so the queue.Full handler, which reads buffer_name, raises UnboundLocalError
add_event_to_buffer(pq, stats, event, priority, now) ==
    IF Full(pq)
    THEN [buffer |-> pq, stats |-> stats, result |-> "UnboundLocalError"]
    ELSE [buffer |-> PriorityPut(pq, <<priority, now, event>>),
          stats |-> update_buffer_stats(stats, "event", "added", 1), result |-> "True"]

\* get_event_from_buffer: the smallest tuple, None on queue.Empty
get_event_from_buffer(pq, stats) ==
    IF pq = <<>> THEN [buffer |-> pq, stats |-> stats, result |-> "None"]
    ELSE [buffer |-> Tail(pq), stats |-> update_buffer_stats(stats, "event", "removed", 1),
          result |-> "item"]

\* a call that succeeds ends with _update_buffer_stats(name, 'last_access', time.time())
Touch(name, out) ==
    last_access_time' = IF out.result \in {"True", "item"}
                        THEN [last_access_time EXCEPT ![name] = bm_now]
                        ELSE last_access_time

BufferCall(op, name, out, was_full) ==
    [op |-> op, buffer |-> name, result |-> out.result, was_full |-> was_full]

\* the next item handed to a buffer: items are numbered in the order offered
NextItem(name) == Len(offered[name]) + 1

OfferedInAll == Len(offered["point"]) + Len(offered["stroke"]) + Len(offered["event"])

AddPointToBuffer(drop_on_full) ==
    LET out == add_point_to_buffer(bm_point_buffer, buffer_stats, NextItem("point"), drop_on_full)
    IN /\ OfferedInAll < MaxPushes
       /\ bm_point_buffer' = out.buffer
       /\ buffer_stats' = out.stats
       /\ offered' = [offered EXCEPT !["point"] = Append(@, NextItem("point"))]
       /\ only_drop_pushes' = [only_drop_pushes EXCEPT !["point"] = @ /\ drop_on_full]
       /\ bm_last' = BufferCall(IF drop_on_full THEN "add_point_to_buffer"
                                ELSE "add_point_to_buffer_no_drop",
                                "point", out, Full(bm_point_buffer))
       /\ UNCHANGED <<bm_stroke_buffer, bm_event_buffer>>
       /\ Touch("point", out)
       /\ UNCHANGED <<outsideBuf, concVars>>

AddPointToBufferAny == \E drop_on_full \in BOOLEAN : AddPointToBuffer(drop_on_full)

GetPointFromBuffer ==
    LET out == get_point_from_buffer(bm_point_buffer, buffer_stats)
    IN /\ bm_point_buffer' = out.buffer
       /\ buffer_stats' = out.stats
       /\ only_drop_pushes' = [only_drop_pushes EXCEPT !["point"] = FALSE]
       /\ bm_last' = BufferCall("get_point_from_buffer", "point", out, Full(bm_point_buffer))
       /\ UNCHANGED <<bm_stroke_buffer, bm_event_buffer, offered>>
       /\ Touch("point", out)
       /\ UNCHANGED <<outsideBuf, concVars>>

AddStrokeToBuffer ==
    LET out == add_stroke_to_buffer(bm_stroke_buffer, buffer_stats, NextItem("stroke"))
    IN /\ OfferedInAll < MaxPushes
       /\ bm_stroke_buffer' = out.buffer
       /\ buffer_stats' = out.stats
       /\ offered' = [offered EXCEPT !["stroke"] = Append(@, NextItem("stroke"))]
       /\ bm_last' = BufferCall("add_stroke_to_buffer", "stroke", out, Full(bm_stroke_buffer))
       /\ UNCHANGED <<bm_point_buffer, bm_event_buffer, only_drop_pushes>>
       /\ Touch("stroke", out)
       /\ UNCHANGED <<outsideBuf, concVars>>

GetStrokeFromBuffer ==
    LET out == get_stroke_from_buffer(bm_stroke_buffer, buffer_stats)
    IN /\ bm_stroke_buffer' = out.buffer
       /\ buffer_stats' = out.stats
       /\ only_drop_pushes' = [only_drop_pushes EXCEPT !["stroke"] = FALSE]
       /\ bm_last' = BufferCall("get_stroke_from_buffer", "stroke", out, Full(bm_stroke_buffer))
       /\ UNCHANGED <<bm_point_buffer, bm_event_buffer, offered>>
       /\ Touch("stroke", out)
       /\ UNCHANGED <<outsideBuf, concVars>>

\* event priorities the callers use
Priorities == {0, 1}

AddEventToBuffer(priority) ==
    LET out == add_event_to_buffer(bm_event_buffer, buffer_stats, NextItem("event"),
                                   priority, NextItem("event"))
    IN /\ OfferedInAll < MaxPushes
       /\ bm_event_buffer' = out.buffer
       /\ buffer_stats' = out.stats
       /\ offered' = [offered EXCEPT !["event"] = Append(@, NextItem("event"))]
       /\ only_drop_pushes' = [only_drop_pushes EXCEPT !["event"] = FALSE]
       /\ bm_last' = BufferCall("add_event_to_buffer", "event", out, Full(bm_event_buffer))
       /\ UNCHANGED <<bm_point_buffer, bm_stroke_buffer>>
       /\ Touch("event", out)
       /\ UNCHANGED <<outsideBuf, concVars>>

AddEventToBufferAny == \E priority \in Priorities : AddEventToBuffer(priority)

GetEventFromBuffer ==
    LET out == get_event_from_buffer(bm_event_buffer, buffer_stats)
    IN /\ bm_event_buffer' = out.buffer
       /\ buffer_stats' = out.stats
       /\ only_drop_pushes' = [only_drop_pushes EXCEPT !["event"] = FALSE]
       /\ bm_last' = BufferCall("get_event_from_buffer", "event", out, Full(bm_event_buffer))
       /\ UNCHANGED <<bm_point_buffer, bm_stroke_buffer, offered>>
       /\ Touch("event", out)
       /\ UNCHANGED <<outsideBuf, concVars>>

\* a BufferManager with its three buffers, called from one thread
BufNext ==
    \/ AddPointToBufferAny
    \/ GetPointFromBuffer
    \/ AddStrokeToBuffer
    \/ GetStrokeFromBuffer
    \/ AddEventToBufferAny
    \/ GetEventFromBuffer

BufInit == Init /\ variant = "DC"

SpecBuf == BufInit /\ [][BufNext]_vars

(* ------------------ the inactivity sweep and the batch ----------------- *)
\* the registered buffer of that name
Buffer(name) ==
    CASE name = "point" -> bm_point_buffer
      [] name = "stroke" -> bm_stroke_buffer
      [] name = "event" -> bm_event_buffer

\* inactive_threshold values the sweep is called with
SweepThresholds == {0, 1}

\* cleanup_inactive_buffers, first loop, with `>=` in place of `>`
inactive_buffers_at_threshold(now, inactive_threshold) ==
    {name \in BufferNames : now - last_access_time[name] >= inactive_threshold}

\* cleanup_inactive_buffers, first loop: the names whose last access is more
\* than the threshold ago
inactive_buffers(now, inactive_threshold) ==
    {name \in BufferNames : now - last_access_time[name] > inactive_threshold}

\* clear_buffer: every item is taken out, the count goes to 'removed', the
\* access time is set
clear_buffer(q, stats, name) ==
    [buffer |-> <<>>, stats |-> update_buffer_stats(stats, name, "removed", Len(q)),
     result |-> Len(q)]

\* the statistics after clear_buffer of every buffer in names
RECURSIVE ClearedStats(_, _)
ClearedStats(stats, names) ==
    IF names = {} THEN stats
    ELSE LET name == CHOOSE n \in names : TRUE
         IN ClearedStats(clear_buffer(Buffer(name), stats, name).stats, names \ {name})

\* cleanup_inactive_buffers(inactive_threshold): clear_buffer for every
\* inactive name that is registered; the number of them is returned
CleanupInactiveBuffersWith(inactive_threshold) ==
    LET inactive == inactive_buffers(bm_now, inactive_threshold)
        After(name) == IF name \in inactive THEN <<>> ELSE Buffer(name)
    IN /\ bm_point_buffer' = After("point")
       /\ bm_stroke_buffer' = After("stroke")
       /\ bm_event_buffer' = After("event")
       /\ buffer_stats' = ClearedStats(buffer_stats, inactive)
       /\ last_access_time' = [name \in BufferNames |->
                                 IF name \in inactive THEN bm_now ELSE last_access_time[name]]
       /\ only_drop_pushes' = [name \in BufferNames |->
                                 only_drop_pushes[name] /\ name \notin inactive]
       /\ bm_last' = [op |-> "cleanup_inactive_buffers", buffer |-> "all",
                      result |-> "count", was_full |-> FALSE]
       /\ sweep_last' = [called |-> TRUE, cleared |-> inactive,
                         returned |-> Cardinality(inactive)]
       /\ UNCHANGED <<offered, bm_now, batch_last, concVars, stageVars, featVars, lifeVars, ppVars, velVars, useVars, rdcVars,
                      variant, detVars, histVars, ctlVars, stopVars, cbVars>>

CleanupInactiveBuffers == \E th \in SweepThresholds : CleanupInactiveBuffersWith(th)

\* time passes
Tick ==
    /\ bm_now < MaxTime
    /\ bm_now' = bm_now + 1
    /\ UNCHANGED <<bufVars, last_access_time, sweep_last, batch_last, concVars, stageVars,
                   featVars, lifeVars, ppVars, velVars, useVars, rdcVars, variant, detVars, histVars, ctlVars, stopVars, cbVars>>

\* max_count, timeout and the time one pass of the loop takes
BatchCounts == {1, 2, 3}
BatchTimeouts == {1, 2}
BatchDelays == {0, 1}

\* the loop of get_buffer_batch on a queue nothing else touches: at most n
\* passes; each computes remaining_time = max(0.001, timeout - elapsed) and
\* calls get(timeout=remaining_time), which returns at once when an item is
\* there and ends the loop with queue.Empty when none is.  `late` counts the
\* items taken when the time since the start had reached the timeout.
RECURSIVE get_buffer_batch(_, _, _, _, _)
get_buffer_batch(q, n, timeout, elapsed, delay) ==
    IF n = 0 \/ q = <<>> THEN [items |-> <<>>, late |-> 0, elapsed |-> elapsed]
    ELSE LET rest == get_buffer_batch(Tail(q), n - 1, timeout, elapsed + delay, delay)
         IN [items |-> <<Head(q)>> \o rest.items,
             late |-> rest.late + (IF elapsed >= timeout THEN 1 ELSE 0),
             elapsed |-> rest.elapsed]

\* get_buffer_batch(buffer, max_count, timeout) on the point queue
GetBufferBatchWith(max_count, timeout, delay) ==
    LET out == get_buffer_batch(bm_point_buffer, max_count, timeout, 0, delay)
    IN /\ bm_now + out.elapsed <= MaxTime
       /\ bm_now' = bm_now + out.elapsed
       /\ bm_point_buffer' = SubSeq(bm_point_buffer, Len(out.items) + 1, Len(bm_point_buffer))
       /\ buffer_stats' = IF out.items = <<>> THEN buffer_stats
                          ELSE update_buffer_stats(buffer_stats, "point", "removed",
                                                   Len(out.items))
       /\ last_access_time' = IF out.items = <<>> THEN last_access_time
                              ELSE [last_access_time EXCEPT !["point"] = bm_now + out.elapsed]
       /\ only_drop_pushes' = [only_drop_pushes EXCEPT !["point"] = FALSE]
       /\ bm_last' = [op |-> "get_buffer_batch", buffer |-> "point", result |-> "list",
                      was_full |-> Full(bm_point_buffer)]
       /\ batch_last' = [called |-> TRUE, items |-> out.items, late |-> out.late]
       /\ UNCHANGED <<bm_stroke_buffer, bm_event_buffer, offered, sweep_last, concVars,
                      stageVars, featVars, lifeVars, ppVars, velVars, useVars, rdcVars, variant, detVars, histVars, ctlVars,
                      stopVars, cbVars>>

GetBufferBatch ==
    \E max_count \in BatchCounts, timeout \in BatchTimeouts, delay \in BatchDelays :
        GetBufferBatchWith(max_count, timeout, delay)

\* a BufferManager whose point queue and stroke deque are filled from one
\* thread while time passes and the sweep runs; the event queue stays empty
\* the buffers __init__ creates through the BufferManager and the loops then
\* use directly: processed_point_buffer (a Queue) and stroke_buffer (a deque)
PipelineBuffers == {"point", "stroke"}

\* put_nowait on the Queue (queue.Full when full), append on the deque(maxlen)
direct_push(q, name, item) ==
    IF name = "point" THEN (IF Full(q) THEN q ELSE Append(q, item))
    ELSE deque_append(q, item)

\* the controller's own push: processed_point_buffer.put_nowait(point) in the
\* point loop, stroke_buffer.append(stroke_data) in the detection loop; no
\* BufferManager method is called
PipelinePush(name) ==
    /\ OfferedInAll < MaxPushes
    /\ bm_point_buffer' = IF name = "point"
                          THEN direct_push(bm_point_buffer, name, NextItem(name))
                          ELSE bm_point_buffer
    /\ bm_stroke_buffer' = IF name = "stroke"
                           THEN direct_push(bm_stroke_buffer, name, NextItem(name))
                           ELSE bm_stroke_buffer
    /\ offered' = [offered EXCEPT ![name] = Append(@, NextItem(name))]
    /\ only_drop_pushes' = [only_drop_pushes EXCEPT ![name] = FALSE]
    /\ pipeline_access' = [pipeline_access EXCEPT ![name] = bm_now]
    /\ UNCHANGED <<bm_event_buffer, buffer_stats, bm_last, last_access_time, concVars,
                   sweepVars, stageVars, featVars, lifeVars, ppVars, velVars, rdcVars,
                   variant, detVars, histVars, ctlVars, stopVars, cbVars>>

\* the controller's own pop: processed_point_buffer.get(timeout=0.05) in the
\* detection loop, stroke_buffer.popleft() in the feature loop
PipelinePop(name) ==
    /\ Buffer(name) # <<>>
    /\ bm_point_buffer' = IF name = "point" THEN Tail(bm_point_buffer) ELSE bm_point_buffer
    /\ bm_stroke_buffer' = IF name = "stroke" THEN Tail(bm_stroke_buffer) ELSE bm_stroke_buffer
    /\ only_drop_pushes' = [only_drop_pushes EXCEPT ![name] = FALSE]
    /\ pipeline_access' = [pipeline_access EXCEPT ![name] = bm_now]
    /\ UNCHANGED <<bm_event_buffer, buffer_stats, offered, bm_last, last_access_time, concVars,
                   sweepVars, stageVars, featVars, lifeVars, ppVars, velVars, rdcVars,
                   variant, detVars, histVars, ctlVars, stopVars, cbVars>>

PipelinePushes == \E name \in PipelineBuffers : PipelinePush(name)
PipelinePops == \E name \in PipelineBuffers : PipelinePop(name)

\* a running pipeline and the BufferManager's cleanup thread
PipelineSweepNext ==
    \/ PipelinePushes
    \/ PipelinePops
    \/ Tick
    \/ CleanupInactiveBuffers

SpecPipelineSweep == BufInit /\ [][PipelineSweepNext]_vars

SweepNext ==
    \/ AddPointToBufferAny
    \/ AddStrokeToBuffer
    \/ Tick
    \/ CleanupInactiveBuffers

SpecSweep == BufInit /\ [][SweepNext]_vars

\* a point queue filled and read in batches from one thread
BatchNext ==
    \/ AddPointToBufferAny
    \/ GetPointFromBuffer
    \/ GetBufferBatch

SpecBatch == BufInit /\ [][BatchNext]_vars

(* ------------- the point queue shared by several threads --------------- *)
seqBufVars == <<bm_stroke_buffer, bm_event_buffer, only_drop_pushes, bm_last>>

\* the thread goes on to _update_buffer_stats(buffer_name, stat, 1) and then to `after`
ToStats(t, stat, after) ==
    /\ bm_pc' = [bm_pc EXCEPT ![t] = "stat_load"]
    /\ bm_local' = [bm_local EXCEPT ![t].stat = stat, ![t].after = after]

\* add_point_to_buffer(buffer, point, drop_on_full=True) is entered
ProducerCalls(t) ==
    /\ bm_pc[t] = "idle"
    /\ Len(offered["point"]) < MaxCalls
    /\ offered' = [offered EXCEPT !["point"] = Append(@, NextItem("point"))]
    /\ bm_local' = [bm_local EXCEPT ![t] = [NoLocals EXCEPT !.item = NextItem("point")]]
    /\ bm_pc' = [bm_pc EXCEPT ![t] = "check_full"]
    /\ UNCHANGED <<bm_point_buffer, buffer_stats, returned, performed, seqBufVars>>
    /\ UNCHANGED <<outsideBuf, last_access_time>>

\* `if drop_on_full and buffer.full():`
ProducerChecksFull(t) ==
    /\ bm_pc[t] = "check_full"
    /\ bm_pc' = [bm_pc EXCEPT ![t] = IF Full(bm_point_buffer) THEN "evict" ELSE "put"]
    /\ UNCHANGED <<bm_point_buffer, buffer_stats, offered, bm_local, returned, performed,
                   seqBufVars>>
    /\ UNCHANGED <<outsideBuf, last_access_time>>

\* `buffer.get_nowait()`, then the 'dropped' statistic; queue.Empty is passed over
ProducerEvicts(t) ==
    /\ bm_pc[t] = "evict"
    /\ IF bm_point_buffer # <<>>
       THEN /\ bm_point_buffer' = Tail(bm_point_buffer)
            /\ performed' = [performed EXCEPT !.total_dropped = @ + 1]
            /\ ToStats(t, "dropped", "put")
       ELSE /\ bm_pc' = [bm_pc EXCEPT ![t] = "put"]
            /\ UNCHANGED <<bm_point_buffer, performed, bm_local>>
    /\ UNCHANGED <<buffer_stats, offered, returned, seqBufVars>>
    /\ UNCHANGED <<outsideBuf, last_access_time>>

\* `buffer.put(point, timeout=timeout)` finds room, then the 'added' statistic
ProducerPuts(t) ==
    /\ bm_pc[t] = "put"
    /\ ~Full(bm_point_buffer)
    /\ bm_point_buffer' = Append(bm_point_buffer, bm_local[t].item)
    /\ performed' = [performed EXCEPT !.total_added = @ + 1]
    /\ ToStats(t, "added", "return True")
    /\ UNCHANGED <<buffer_stats, offered, returned, seqBufVars>>
    /\ UNCHANGED <<outsideBuf, last_access_time>>

\* `buffer.put(point, timeout=timeout)` waited on a full queue until the
\* timeout: queue.Full, the 'dropped' statistic, return False
ProducerPutTimesOut(t) ==
    /\ bm_pc[t] = "put"
    /\ Full(bm_point_buffer)
    /\ performed' = [performed EXCEPT !.total_dropped = @ + 1]
    /\ ToStats(t, "dropped", "return False")
    /\ UNCHANGED <<bm_point_buffer, buffer_stats, offered, returned, seqBufVars>>
    /\ UNCHANGED <<outsideBuf, last_access_time>>

\* get_point_from_buffer: `buffer.get(timeout=timeout)` returns an item, then
\* the 'removed' statistic
ConsumerGets(t) ==
    /\ bm_pc[t] = "idle"
    /\ bm_point_buffer # <<>>
    /\ bm_point_buffer' = Tail(bm_point_buffer)
    /\ performed' = [performed EXCEPT !.total_removed = @ + 1]
    /\ ToStats(t, "removed", "return item")
    /\ UNCHANGED <<buffer_stats, offered, returned, seqBufVars>>
    /\ UNCHANGED <<outsideBuf, last_access_time>>

\* _update_buffer_stats, `stats[name][field] += value`: the counter is read
StatsLoad(t) ==
    /\ bm_pc[t] = "stat_load"
    /\ bm_local' = [bm_local EXCEPT ![t].reg = buffer_stats["point"][StatField(bm_local[t].stat)]]
    /\ bm_pc' = [bm_pc EXCEPT ![t] = "stat_store"]
    /\ UNCHANGED <<bm_point_buffer, buffer_stats, offered, returned, performed, seqBufVars>>
    /\ UNCHANGED <<outsideBuf, last_access_time>>

\* _update_buffer_stats: the loaded value plus one is written back; the call
\* goes on to the put or returns
StatsStore(t) ==
    /\ bm_pc[t] = "stat_store"
    /\ buffer_stats' = [buffer_stats EXCEPT !["point"][StatField(bm_local[t].stat)] =
                                                bm_local[t].reg + 1]
    /\ IF bm_local[t].after = "put"
       THEN /\ bm_pc' = [bm_pc EXCEPT ![t] = "put"]
            /\ UNCHANGED returned
       ELSE /\ bm_pc' = [bm_pc EXCEPT ![t] = "idle"]
            /\ returned' = [returned EXCEPT ![t] = bm_local[t].after]
    /\ bm_local' = [bm_local EXCEPT ![t].stat = "none", ![t].reg = 0, ![t].after = "none"]
    /\ last_access_time' = IF bm_local[t].after \in {"return True", "return item"}
                           THEN [last_access_time EXCEPT !["point"] = bm_now]
                           ELSE last_access_time
    /\ UNCHANGED <<bm_point_buffer, offered, performed, seqBufVars>>
    /\ UNCHANGED <<outsideBuf>>

ConcNext ==
    \/ \E t \in Producers : ProducerCalls(t)
    \/ \E t \in Producers : ProducerChecksFull(t)
    \/ \E t \in Producers : ProducerEvicts(t)
    \/ \E t \in Producers : ProducerPuts(t)
    \/ \E t \in Producers : ProducerPutTimesOut(t)
    \/ \E t \in Consumers : ConsumerGets(t)
    \/ \E t \in BufferThreads : StatsLoad(t)
    \/ \E t \in BufferThreads : StatsStore(t)

SpecBufConc == BufInit /\ [][ConcNext]_vars

(* ======================= properties of the detector ==================== *)

StrictlyIncreasing(ids) ==
    \A i, j \in 1..Len(ids) : i < j => ids[i] < ids[j]

\* C1: the ids of the strokes finalize_current_stroke appends to
\* completed_strokes are strictly increasing in order of finalization, so no
\* id is emitted twice, whether or not the strokes validated.
C1_EmittedIdsStrictlyIncreasing ==
    StrictlyIncreasing(finalized_ids)

\* two strokes were emitted and a rejected stroke consumed the id between them
C1_Witness_GapAfterRejectedStroke ==
    /\ Len(finalized_ids) >= 2
    /\ finalized_ids[2] > finalized_ids[1] + 1

\* C6: add_point with a pressure == 0 point while the detector is Idle
\* changes nothing: completed_strokes, the empty buffer, the state and
\* current_stroke_id all stay as they were.
C6_IdlePenUpIsNoOp ==
    [][(last'.op = "add_point" /\ last'.pressure = 0 /\ current_state = IDLE)
        => /\ completed_strokes' = completed_strokes
           /\ current_stroke_points' = <<>>
           /\ current_state' = IDLE
           /\ current_stroke_id' = current_stroke_id]_vars

\* a pen-up sample reached an Idle detector that had already used an id
C6_Witness_PenUpWhileIdle ==
    /\ last.op = "add_point" /\ last.pressure = 0 /\ last.pre_state = IDLE
    /\ current_stroke_id > 0

\* the state in which a call of add_point reaches finalize_current_stroke
\* with a non-empty buffer
FinalizeRuns ==
    /\ last'.op = "add_point"
    /\ current_state = ACTIVE
    /\ current_stroke_points # <<>>
    /\ \/ last'.pressure = 0
       \/ variant = "DC" /\ last'.pressure > 0 /\ last'.stale

\* C7: Active, pressure > 0, more than 0.5 s after the last buffered point:
\* the one call stores the buffer as a completed stroke under the old id and
\* starts a stroke under the next id holding only the arriving point; the
\* detector is Active afterwards.
C7_StaleGapSplits ==
    [][(/\ last'.op = "add_point" /\ last'.pressure > 0 /\ last'.stale
        /\ current_state = ACTIVE /\ current_stroke_points # <<>>)
        => /\ Len(completed_strokes') = Len(completed_strokes) + 1
           /\ completed_strokes'[Len(completed_strokes')].stroke_id = current_stroke_id
           /\ completed_strokes'[Len(completed_strokes')].points = current_stroke_points
           /\ current_stroke_id' = current_stroke_id + 1
           /\ Len(current_stroke_points') = 1
           /\ current_stroke_points'[1].stroke_id = current_stroke_id'
           /\ current_state' = ACTIVE]_vars

\* C8: finalize_current_stroke stores the non-empty buffer whether or not it
\* validates, and the stored record's is_valid equals validate_stroke of it.
C8_StoredRegardlessWithFlag ==
    [][FinalizeRuns
        => /\ Len(completed_strokes') = Len(completed_strokes) + 1
           /\ LET rec == completed_strokes'[Len(completed_strokes')]
              IN /\ rec.points = current_stroke_points
                 /\ "is_valid" \in DOMAIN rec
                 /\ rec.is_valid = validate_stroke(current_stroke_points)]_vars

\* C9 as stated: the three samples leave one completed, valid stroke of 3 points.
C9_Original_ThreePoints ==
    last.scenario = 3
        => /\ Len(completed_strokes) = 1
           /\ validate_stroke(completed_strokes[1].points)
           /\ Len(completed_strokes[1].points) = 3

\* C9 amended: the three samples leave exactly one completed stroke, it is
\* valid, and it holds the 2 pressure > 0 samples (the pressure == 0 sample
\* ends the stroke and is not stored in it).
C9_ScenarioOneValidStrokeOfTwoPoints ==
    last.scenario = 3
        => /\ Len(completed_strokes) = 1
           /\ validate_stroke(completed_strokes[1].points)
           /\ (variant = "DC" => completed_strokes[1].is_valid)
           /\ completed_strokes[1].num_points = 2
           /\ Len(completed_strokes[1].points) = 2
           /\ \A i \in 1..2 : completed_strokes[1].points[i].pressure > 0
           /\ current_state = IDLE /\ current_stroke_points = <<>>

\* the third sample of the scenario has just been fed
C9_Witness_ScenarioFed ==
    last.scenario = 3 /\ last.op = "add_point" /\ last.pressure = 0

\* C11 as stated: whenever finalize_current_stroke returns, also from its
\* except handler, the detector state is Idle.
C11_Original_FinalizeReturnsIdle ==
    (current_state = ACTIVE /\ current_stroke_points # <<>>)
        => /\ finalize_current_stroke(Det).current_state = IDLE
           /\ \A at \in FinalizeFaults :
                  finalize_current_stroke_raising(Det, at).current_state = IDLE

\* C11 amended: a pen-up add_point on an active stroke leaves the detector
\* Idle when it returns, also when the finalize step raised inside; in
\* Phase2_divscreen_color every return of finalize_current_stroke, the one
\* from its except handler included, has set the state to Idle itself, while
\* in Phase2 finalize_current_stroke leaves the state alone and add_point
\* sets it right after the call.
C11_PenUpLeavesIdleEvenOnError ==
    [][(/\ last'.op = "add_point" /\ last'.pressure = 0
        /\ current_state = ACTIVE /\ current_stroke_points # <<>>)
        => /\ current_state' = IDLE
           /\ variant = "DC" =>
                 /\ finalize_current_stroke_DC(Det).current_state = IDLE
                 /\ \A at \in FinalizeFaults :
                        finalize_current_stroke_DC_raising(Det, at).current_state = IDLE
           /\ variant = "P2" =>
                 \A at \in FinalizeFaults :
                    finalize_current_stroke_P2_raising(Det, at).current_state = ACTIVE]_vars

\* the finalize step raised before the buffer was emptied: the detector is
\* Idle with the points still buffered
C11_Witness_FinalizeRaised ==
    /\ last.op = "add_point" /\ last.pressure = 0 /\ last.pre_state = ACTIVE
    /\ last.fault # "none"
    /\ current_state = IDLE /\ current_stroke_points # <<>>

\* C12: every call of finalize_current_stroke (add_point makes it on a
\* non-empty buffer only) increases current_stroke_id by exactly one, whether
\* the finalized stroke validates or not.
C12_FinalizeAdvancesIdByOne ==
    [][FinalizeRuns => current_stroke_id' = current_stroke_id + 1]_vars

\* a stroke that does not validate was finalized and the id moved on
C12_Witness_RejectedStrokeConsumedId ==
    /\ last.op = "add_point" /\ last.pressure = 0 /\ last.pre_state = ACTIVE
    /\ current_stroke_id = Len(finalized_ids) + 1
    /\ \/ variant = "P2"
       \/ /\ completed_strokes # <<>>
          /\ ~completed_strokes[Len(completed_strokes)].is_valid

(* ====================== properties of the controller =================== *)

\* the points as add_point received them, before the id was stamped on them
Unstamped(points) == [i \in 1..Len(points) |-> Stamp(points[i], -1)]

\* C13: whenever a stroke is completed, its points are exactly the
\* pressure > 0 points add_point accepted since that stroke started, in the
\* order add_point received them, every one stamped with the stroke's id:
\* none lost, duplicated, reordered or taken from another stroke.
C13_CompletedStrokeKeepsAcceptedPoints ==
    [][Len(completed_strokes') = Len(completed_strokes) + 1
        => LET rec == completed_strokes'[Len(completed_strokes')]
           IN /\ Unstamped(rec.points) = accepted
              /\ \A i \in 1..Len(rec.points) :
                    rec.points[i].pressure > 0 /\ rec.points[i].stroke_id = rec.stroke_id
              /\ rec.num_points = Len(accepted)]_vars

\* the stroke-detection loop completed a stroke of two different points
\* that came through the queue
C13_Witness_WorkerCompletedTwoPointStroke ==
    /\ ~use_external_input
    /\ pcWorker = "copy"
    /\ completed_strokes # <<>>
    /\ Len(accepted) = 2 /\ accepted[1] # accepted[2]
    /\ Unstamped(completed_strokes[Len(completed_strokes)].points) = accepted


NoDuplicates(seq) ==
    \A i, j \in 1..Len(seq) : i # j => seq[i] # seq[j]

\* C2: an id stamped on the points of a stroke when it starts is never
\* stamped on a stroke started later, across add_point, force_reset_state and
\* stop_processing, also when the earlier stroke was rejected or discarded.
C2_IdNeverRestamped ==
    ~restamped

\* C3: every access of the detector by process_raw_point and by the
\* stroke-detection loop is made holding the detector lock, so the two are
\* never inside the detector at the same time.
C3_DetectorAccessUnderLock ==
    /\ pcMain \in {"copy", "clear"} => lock = "main"
    /\ pcWorker \in {"copy", "clear"} => lock = "worker"
    /\ ~(pcMain = "clear" /\ pcWorker = "clear")

\* C4: with process_raw_point and the stroke-detection loop running together,
\* a finalized stroke is appended to stroke_buffer, counted in total_strokes
\* and handed to on_stroke_completed at most once.
C4_StrokeDeliveredAtMostOnce ==
    /\ NoDuplicates(on_stroke_completed)
    /\ NoDuplicates(Ids(stroke_buffer))
    /\ total_strokes <= Len(finalized_ids)

\* stop_processing finds an unfinished stroke
StopFindsStroke ==
    /\ last'.op = "stop_processing"
    /\ current_state = ACTIVE
    /\ current_stroke_points # <<>>

\* C5 as stated: stop_processing runs the detector's finalize step on the
\* unfinished stroke (the id is consumed, a stroke that validates is stored)
\* before the threads are joined.
C5_Original_StopFinalizes ==
    [][StopFindsStroke
        => /\ current_stroke_id' = current_stroke_id + 1
           /\ validate_stroke(current_stroke_points)
                => Len(completed_strokes') = Len(completed_strokes) + 1]_vars

\* C5 amended: stop_processing drops the unfinished stroke before the threads
\* are joined: the buffer is emptied and the state set to Idle without the
\* finalize step, so nothing is stored and the id is not consumed.
C5_StopDropsUnfinishedStroke ==
    [][StopFindsStroke
        => /\ current_stroke_points' = <<>>
           /\ current_state' = IDLE
           /\ completed_strokes' = completed_strokes
           /\ finalized_ids' = finalized_ids
           /\ current_stroke_id' = current_stroke_id
           /\ pcMain' = "join"]_vars

\* stop_processing met an Active detector and is now at its joins
C5_Witness_StoppedWhileActive ==
    /\ last.op = "stop_processing" /\ last.pre_state = ACTIVE
    /\ pcMain = "join"
    /\ current_stroke_id \in started_ids

\* C10: in external-input mode a pressure == 0 sample given to
\* process_raw_point while the detector is Active finalizes the stroke and
\* leaves the detector Idle, whatever pressure_threshold is configured.
C10_PenUpFinalizesForEveryThreshold ==
    [][(/\ last'.op = "process_raw_point" /\ last'.pressure = 0
        /\ use_external_input
        /\ current_state = ACTIVE /\ current_stroke_points # <<>>)
        => /\ current_state' = IDLE
           /\ current_stroke_points' = <<>>
           /\ current_stroke_id' = current_stroke_id + 1]_vars

(* ==================== properties of the BufferManager ================== *)

\* the last n items of a sequence
LastN(seq, n) == IF Len(seq) <= n THEN seq ELSE SubSeq(seq, Len(seq) - n + 1, Len(seq))

DropOldestHolds(name, buffer) ==
    only_drop_pushes[name]
        => /\ buffer = LastN(offered[name], BufCap)
           /\ buffer_stats[name].total_dropped =
                 (IF Len(offered[name]) > BufCap THEN Len(offered[name]) - BufCap ELSE 0)

\* C14: after N + k pushes (k >= 1) with the drop-oldest policy and no pop,
\* a buffer of capacity N holds exactly the last N pushed items in insertion
\* order and its dropped count is k; for the point queue
\* (add_point_to_buffer, drop_on_full) and the stroke deque.
C14_DropOldestKeepsLastN ==
    /\ DropOldestHolds("point", bm_point_buffer)
    /\ DropOldestHolds("stroke", bm_stroke_buffer)

\* the point queue took N + 2 and the stroke deque N + 1 drop-oldest pushes,
\* and no pop
C14_Witness_TwoOverCapacity ==
    /\ only_drop_pushes["point"] /\ Len(offered["point"]) = BufCap + 2
    /\ only_drop_pushes["stroke"] /\ Len(offered["stroke"]) = BufCap + 1
    /\ buffer_stats["point"].total_dropped = 2
    /\ buffer_stats["stroke"].total_dropped = 1

\* C17: a push without drop-oldest onto a full buffer returns False without
\* raising and leaves the contents unchanged, for add_point_to_buffer with
\* drop_on_full=False and for add_event_to_buffer.
C17_FullPushReturnsFalse ==
    /\ [][(bm_last'.op = "add_point_to_buffer_no_drop" /\ Full(bm_point_buffer))
            => bm_last'.result = "False" /\ bm_point_buffer' = bm_point_buffer]_vars
    /\ [][(bm_last'.op = "add_event_to_buffer" /\ Full(bm_event_buffer))
            => bm_last'.result = "False" /\ bm_event_buffer' = bm_event_buffer]_vars

\* a producer is inside put() on a full queue: it waits for room
WaitsForSpace(t) == bm_pc[t] = "put" /\ Full(bm_point_buffer)

\* C15: add_point_to_buffer with drop_on_full=True never waits for space and
\* never fails, also with several producers pushing to the same buffer: no
\* producer is ever held in put() by a full queue and no call returns False.
C15_DropOldestPushNeverWaitsOrFails ==
    \A t \in Producers : ~WaitsForSpace(t) /\ returned[t] # "return False"

\* C16: once the concurrent pushes, evictions and pops have completed, the
\* buffer's total_added, total_removed and total_dropped equal the numbers of
\* pushes, pops and drops that took place: no update is lost.
C16_NoStatisticsUpdateLost ==
    (\A t \in BufferThreads : bm_pc[t] = "idle")
        => /\ buffer_stats["point"].total_added = performed.total_added
           /\ buffer_stats["point"].total_removed = performed.total_removed
           /\ buffer_stats["point"].total_dropped = performed.total_dropped


(* ============== start, stop and the worker loops' exit ================= *)
\* the threads one start_processing call creates: the point loop only when
\* the controller reads the device itself
StartedLoops(external) ==
    IF external THEN LoopNames \ {"PointProcessing"} ELSE LoopNames

Alive(th) == loop_pc[th] \in {"test", "body"}

\* start_processing: refused only while is_processing is set; sets the flag,
\* clears stop_event, creates and starts this call's threads
StartProcessingThreads ==
    /\ pcMain = "idle"
    /\ ~is_processing
    /\ generation < MaxStarts
    /\ is_processing' = TRUE
    /\ stop_event' = FALSE
    /\ generation' = generation + 1
    /\ loop_pc' = [th \in LoopThreads |->
                     IF th[1] = generation + 1 /\ th[2] \in StartedLoops(use_external_input)
                     THEN "test" ELSE loop_pc[th]]
    /\ UNCHANGED <<outsideStop, variant, detVars, histVars, cfgVars, lock, pcMain,
                   pcWorker, mainStrokes, workerStrokes, pipeVars>>

\* stop_processing up to its joins: clears is_processing, sets stop_event
StopProcessingSetsFlags ==
    /\ pcMain = "idle"
    /\ is_processing
    /\ is_processing' = FALSE
    /\ stop_event' = TRUE
    /\ pcMain' = "join"
    /\ UNCHANGED <<outsideStop, variant, detVars, histVars, cfgVars, lock,
                   pcWorker, mainStrokes, workerStrokes, pipeVars, loop_pc, generation>>

\* every thread in processing_threads has ended: the joins return
StopProcessingJoined ==
    /\ pcMain = "join"
    /\ \A name \in LoopNames : ~Alive(<<generation, name>>)
    /\ pcMain' = "idle"
    /\ UNCHANGED <<outsideStop, variant, detVars, histVars, cfgVars, is_processing,
                   lock, pcWorker, mainStrokes, workerStrokes, pipeVars, stopVars>>

\* thread.join(timeout=2.0) returns with the thread still alive, in the
\* middle of an iteration; processing_threads.clear() forgets it
StopProcessingJoinTimesOut ==
    /\ pcMain = "join"
    /\ \E name \in LoopNames : loop_pc[<<generation, name>>] = "body"
    /\ pcMain' = "idle"
    /\ UNCHANGED <<outsideStop, variant, detVars, histVars, cfgVars, is_processing,
                   lock, pcWorker, mainStrokes, workerStrokes, pipeVars, stopVars>>

\* the `except Exception` handler of each loop: all four log; the point loop
\* and the feature loop also call _trigger_callback('on_error', ...) with
\* their error_type; the call reaches on_error when it is registered
loop_except(name) ==
    IF trigger_callback("on_error", FALSE).outcome = "none" THEN {}
    ELSE CASE name = "PointProcessing" ->
                {[loop |-> name, error_type |-> "point_processing_error"]}
           [] name = "FeatureCalculation" ->
                {[loop |-> name, error_type |-> "feature_calculation_error"]}
           [] name = "StrokeDetection" -> {}
           [] name = "StatusMonitoring" -> {}

\* `while self.is_processing and not self.stop_event.is_set():`
LoopTest(th) ==
    /\ loop_pc[th] = "test"
    /\ loop_pc' = [loop_pc EXCEPT ![th] =
                     IF is_processing /\ ~stop_event THEN "body" ELSE "ended"]
    /\ UNCHANGED <<outsideStop, variant, detVars, histVars, ctlVars,
                   stop_event, generation>>

\* one iteration of the loop body: a read with a timeout or a sleep, the
\* work on what was read, the except handler; it ends and the test is next
LoopBodyWith(th, raises) ==
    /\ loop_pc[th] = "body"
    /\ loop_pc' = [loop_pc EXCEPT ![th] = "test"]
    /\ stage_failed' = IF raises THEN stage_failed \cup {th[2]} ELSE stage_failed
    /\ on_error_reports' = IF raises THEN on_error_reports \cup loop_except(th[2])
                                     ELSE on_error_reports
    /\ UNCHANGED <<bufVars, concVars, sweepVars, last_access_time, cbVars, featVars, lifeVars, ppVars, velVars, useVars, rdcVars, variant, detVars, histVars,
                   ctlVars, stop_event, generation>>

\* the iteration runs through or something in it raises
LoopBody(th) == \E raises \in BOOLEAN : LoopBodyWith(th, raises)

LoopStep(th) == LoopTest(th) \/ LoopBody(th)

LoopTests == \E th \in LoopThreads : LoopTest(th)

LoopBodies == \E th \in LoopThreads : LoopBody(th)

StopInit == CtlInit /\ variant = "DC" /\ pressure_threshold = 0

StopNext ==
    \/ StartProcessingThreads
    \/ StopProcessingSetsFlags
    \/ StopProcessingJoined
    \/ StopProcessingJoinTimesOut
    \/ LoopTests
    \/ LoopBodies

\* every started thread is scheduled again and again; the callers of
\* start_processing and stop_processing are free
SpecStop ==
    /\ StopInit
    /\ [][StopNext]_vars
    /\ \A th \in LoopThreads : WF_vars(LoopStep(th))

(* ====================== initialize and shutdown ======================== *)
\* the components in the order initialize and shutdown go through them
Components == <<"raw_collector", "point_processor", "stroke_detector", "feature_calculator">>

\* what can be wrong with the device configuration
DeviceFailures == {"invalid_config", "unsupported_type", "handler_failed"}

\* the ways an initialize call can go: all well, the device configuration
\* rejected, or one of the later components failing to initialize
InitScenarios ==
    {[failing |-> "none", how |-> "none"]}
    \cup {[failing |-> "raw_collector", how |-> f] : f \in DeviceFailures}
    \cup {[failing |-> c, how |-> "returns_false"] :
             c \in {"point_processor", "stroke_detector", "feature_calculator"}}

\* RawDataCollector.initialize_device: True and CONNECTED, or the status set
\* to ERROR and the exception raised again
initialize_device(scn) ==
    IF scn.failing # "raw_collector"
    THEN [result |-> "True", error |-> "none", device_status |-> "CONNECTED"]
    ELSE [result |-> "raises",
          error |-> IF scn.how = "unsupported_type" THEN "UnsupportedDeviceError"
                    ELSE "DeviceInitializationError",
          device_status |-> "ERROR"]

\* StrokeDetector.reset_state, called by its initialize and its shutdown
reset_state(d) ==
    [d EXCEPT !.current_stroke_id = 0, !.current_stroke_points = <<>>,
              !.completed_strokes = <<>>, !.current_state = IDLE]

\* the components whose initialize was called: up to the failing one
InitReached(scn) ==
    IF scn.failing = "none" THEN {Components[i] : i \in 1..4}
    ELSE {Components[i] : i \in {j \in 1..4 : \A k \in 1..(j - 1) : Components[k] # scn.failing}}

\* initialize without its try/except: the collector's exception leaves it
initialize_uncaught(scn, running) ==
    [op |-> "initialize", failing |-> scn.failing,
     returned |-> IF scn.failing = "none" THEN "True"
                  ELSE IF scn.failing = "raw_collector" THEN "none" ELSE "False",
     raised |-> (scn.failing = "raw_collector"),
     reached |-> InitReached(scn),
     is_running |-> (running \/ scn.failing = "none")]

\* InkProcessingSystem.initialize: each component in turn, False at the first
\* that fails; an exception is caught and gives False; is_running is set only
\* at the end
initialize(scn, running) ==
    [op |-> "initialize", failing |-> scn.failing,
     returned |-> IF scn.failing = "none" THEN "True" ELSE "False",
     raised |-> FALSE,
     reached |-> InitReached(scn),
     is_running |-> (running \/ scn.failing = "none")]

InitializeWith(scn) ==
    /\ pcMain = "idle"
    /\ is_running' = initialize(scn, is_running).is_running
    /\ device_status' = initialize_device(scn).device_status
    /\ life_last' = [op |-> "initialize", failing |-> scn.failing,
                     returned |-> initialize(scn, is_running).returned,
                     raised |-> initialize(scn, is_running).raised]
    /\ IF "stroke_detector" \in InitReached(scn) /\ scn.failing # "stroke_detector"
       THEN SetDet(reset_state(Det))
       ELSE UNCHANGED <<detVars, finalized_ids, started_ids, restamped, faults, accepted>>
    /\ UNCHANGED <<bufVars, concVars, sweepVars, last_access_time, stopVars, cbVars, stageVars, featVars, ppVars, velVars, useVars, rdcVars, variant, last,
                   ctlVars>>

Initialize == \E scn \in InitScenarios : InitializeWith(scn)

\* the components that have a shutdown method and whose cleanup can fail:
\* both catch the failure themselves
GuardedShutdowns == {"point_processor", "feature_calculator"}

\* PointProcessor.shutdown and FeatureCalculator.shutdown without their try/except
component_shutdown_uncaught(c, fails) == fails

\* PointProcessor.shutdown and FeatureCalculator.shutdown: a failure of the
\* cleanup is caught and logged; TRUE when an exception leaves the method
component_shutdown(c, fails) == FALSE

\* the component shutdowns InkProcessingSystem.shutdown gets to: it has no
\* handler of its own, so it stops at the first that raises.  The collector
\* has no shutdown method and is skipped.
ShutdownReached(failing) ==
    {Components[i] : i \in {j \in 2..4 :
        \A k \in 2..(j - 1) :
            ~(Components[k] = failing /\ component_shutdown(Components[k], TRUE))}}

ShutdownRaises(failing) ==
    failing \in GuardedShutdowns /\ component_shutdown(failing, TRUE)

\* shutdown, first part, processing on: stop_processing up to its joins
ShutdownStopsProcessing ==
    /\ pcMain = "idle"
    /\ is_processing
    /\ is_processing' = FALSE
    /\ stop_event' = TRUE
    /\ pcMain' = "shutdown_join"
    /\ UNCHANGED <<outsideStop, variant, detVars, histVars, cfgVars, lock,
                   pcWorker, mainStrokes, workerStrokes, pipeVars, loop_pc, generation>>

\* the joins of that stop_processing return, the threads ended or not
ShutdownJoins ==
    /\ pcMain = "shutdown_join"
    /\ \/ \A name \in LoopNames : ~Alive(<<generation, name>>)
       \/ \E name \in LoopNames : loop_pc[<<generation, name>>] = "body"
    /\ pcMain' = "shutdown_components"
    /\ UNCHANGED <<outsideStop, variant, detVars, histVars, cfgVars, is_processing,
                   lock, pcWorker, mainStrokes, workerStrokes, pipeVars, stopVars>>

\* shutdown, the components and the flag: point processor, detector, feature
\* calculator in turn, then is_running = False
ShutdownComponentsWith(failing) ==
    /\ \/ pcMain = "shutdown_components"
       \/ pcMain = "idle" /\ ~is_processing
    /\ pcMain' = "idle"
    /\ is_running' = IF ShutdownRaises(failing) THEN is_running ELSE FALSE
    /\ life_last' = [op |-> "shutdown", failing |-> failing, returned |-> "none",
                     raised |-> ShutdownRaises(failing)]
    /\ IF "stroke_detector" \in ShutdownReached(failing)
       THEN SetDet(reset_state(Det))
       ELSE UNCHANGED <<detVars, finalized_ids, started_ids, restamped, faults, accepted>>
    /\ UNCHANGED <<bufVars, concVars, sweepVars, last_access_time, stopVars, cbVars, stageVars, featVars, ppVars, velVars, useVars, rdcVars, variant, last,
                   device_status, cfgVars, is_processing, lock, pcWorker, mainStrokes,
                   workerStrokes, pipeVars>>

ShutdownComponents ==
    \E failing \in GuardedShutdowns \cup {"none"} : ShutdownComponentsWith(failing)

\* the controller from initialize to shutdown, fed through process_raw_point
LifeInit == StopInit /\ use_external_input

LifeNext ==
    \/ Initialize
    \/ StartProcessingThreads
    \/ LoopTests
    \/ LoopBodies
    \/ ShutdownStopsProcessing
    \/ ShutdownJoins
    \/ ShutdownComponents

SpecLife == LifeInit /\ [][LifeNext]_vars

(* -------------- properties of the sweep and the batch ------------------ *)

(* C28: cleanup_inactive_buffers(threshold) leaves empty every buffer whose
   last access is more than threshold ago, leaves the contents of every other
   buffer as they were, and returns the number of buffers it emptied. *)
C28_SweepEmptiesInactiveBuffersOnly ==
    [][\A th \in SweepThresholds :
          CleanupInactiveBuffersWith(th) =>
              /\ \A name \in BufferNames :
                    IF bm_now - last_access_time[name] > th
                    THEN Buffer(name)' = <<>>
                    ELSE Buffer(name)' = Buffer(name)
              /\ sweep_last'.returned =
                    Cardinality({name \in BufferNames : bm_now - last_access_time[name] > th})]_vars

\* a sweep has emptied the stale stroke deque and left the point queue, used
\* more recently, with its items
C28_Witness_OneEmptiedOneKept ==
    /\ sweep_last.called
    /\ "stroke" \in sweep_last.cleared
    /\ "point" \notin sweep_last.cleared
    /\ bm_last.op = "cleanup_inactive_buffers"
    /\ bm_stroke_buffer = <<>>
    /\ buffer_stats["stroke"].total_removed > 0
    /\ bm_point_buffer # <<>>

(* C29: get_buffer_batch returns at most max_count items, in the order the
   queue gives them, and takes no item once the time since its start has
   reached the timeout. *)
C29_BatchStopsWhenBudgetIsUsedUp ==
    [][\A max_count \in BatchCounts, timeout \in BatchTimeouts, delay \in BatchDelays :
          GetBufferBatchWith(max_count, timeout, delay) =>
              /\ Len(batch_last'.items) <= max_count
              /\ batch_last'.items = SubSeq(bm_point_buffer, 1, Len(batch_last'.items))
              /\ batch_last'.late = 0]_vars

(* ------------------- properties of the worker loops -------------------- *)

(* C18: once stop_processing has set the stop flag, every worker loop that
   is running ends. *)
C18_LoopsExitAfterStop ==
    \A th \in LoopThreads : (stop_event /\ Alive(th)) ~> (loop_pc[th] = "ended")

\* the loops that handle items
ItemLoops == {"PointProcessing", "StrokeDetection", "FeatureCalculation"}

Reported(name) == \E r \in on_error_reports : r.loop = name

(* C21: an exception raised in an iteration of the point-processing, the
   stroke-detection or the feature-calculation loop has been reported to
   on_error, with an error type. *)
C21_StageErrorReportedAndLoopContinues ==
    \A th \in LoopThreads :
        (th[2] \in ItemLoops /\ th[2] \in stage_failed) =>
            Reported(th[2])

(* ---------------- properties of feature calculation ------------------- *)
Count(seq, v) == Cardinality({i \in 1..Len(seq) : seq[i] = v})

(* C22: every stroke the feature loop has taken from the stroke buffer has
   been delivered through on_features_calculated exactly once, with its id. *)
C22_OneFeatureBundlePerStroke ==
    \A i \in 1..Len(popped_strokes) :
        Count(on_features_calculated, popped_strokes[i]) = 1

(* C23: calculate_features of a stroke of 0 or 1 points is a bundle with
   every block present. *)
C23_DegenerateStrokeGivesZeroedBundle ==
    (last_features.called /\ last_features.num_points < 2) =>
        last_features.blocks = FeatureBlocks

(* ------------------ properties of process_raw_point -------------------- *)

(* C24: process_raw_point returns True exactly when it handed a point made
   from the sample to the detector. *)
C24_ReturnsTrueIffForwarded ==
    [][\A raw \in RawInputs :
          ProcessRawPointWith(raw) => (PRP_Returns(raw) <=> PRP_Forwards(raw))]_vars

(* C25: on_stroke_completed receives the strokes in the order the detector
   finalized them: no stroke is delivered after one with a larger id. *)
C25_StrokesDeliveredInFinalizeOrder ==
    \A i, j \in 1..Len(on_stroke_completed) :
        i < j => on_stroke_completed[i] <= on_stroke_completed[j]

(* ---------------- properties of initialize and shutdown ---------------- *)

(* C26: an initialize call in which the device configuration is rejected or
   a component fails returns False and raises nothing; is_running, if it
   was False, is False afterwards, and no thread has been started by it. *)
C26_FailedInitializeReturnsFalse ==
    [][\A scn \in InitScenarios :
          (InitializeWith(scn) /\ scn.failing # "none") =>
              /\ life_last'.returned = "False"
              /\ ~life_last'.raised
              /\ (~is_running => ~is_running')
              /\ UNCHANGED <<loop_pc, generation, pcWorker, is_processing>>]_vars

\* initialize has failed on an unsupported device type and the system is not running
C26_Witness_UnsupportedDeviceRejected ==
    /\ life_last.op = "initialize"
    /\ life_last.failing = "raw_collector"
    /\ life_last.returned = "False"
    /\ device_status = "ERROR"
    /\ ~is_running

(* C27: shutdown raises nothing; when the cleanup of a component fails the
   shutdown of the other components is still called, and at the end
   is_processing and is_running are both False. *)
C27_ShutdownNeverRaises ==
    [][\A failing \in GuardedShutdowns \cup {"none"} :
          ShutdownComponentsWith(failing) =>
              /\ ~life_last'.raised
              /\ ShutdownReached(failing) =
                   {"point_processor", "stroke_detector", "feature_calculator"}
              /\ ~is_running'
              /\ ~is_processing']_vars

\* a shutdown in which the point processor's cleanup failed has ended, after
\* the system had been running and processing
C27_Witness_ShutdownAfterFailedCleanup ==
    /\ life_last.op = "shutdown"
    /\ life_last.failing = "point_processor"
    /\ generation > 0
    /\ ~is_running
    /\ ~is_processing

(* ------------------ samples through the point processor --------------- *)
\* one call of PointProcessor.process_point
SubmitPointWith(raw) ==
    /\ Len(pp_results) < MaxSubmitted
    /\ LET out == process_point(raw)
       IN pp_results' = Append(pp_results,
              [raw |-> raw, out |-> out,
               confidence |-> IF out = None THEN None ELSE <<confidence(raw)>>])
    /\ UNCHANGED <<variant, detVars, histVars, ctlVars, bufVars, concVars, stopVars, cbVars,
                   stageVars, featVars, lifeVars, sweepVars, velVars, useVars, rdcVars, last_access_time>>

SubmitPoint == \E raw \in RawInputs \cup MalformedInputs : SubmitPointWith(raw)

PointInit == CtlInit /\ variant = "P2" /\ use_external_input

PointNext == SubmitPoint

SpecPoint == PointInit /\ [][PointNext]_vars

(* ---------------- evenly spaced samples, one stroke -------------------- *)
\* the k-th sample of a sequence starting at (x0, 5) at 0.1 s and advancing
\* by d device units every dt tenths of a second, pen down
EvenlySpaced(x0, d, dt, k) == RawInkPoint(x0 + k * d, 5, 800, 1 + k * dt)

\* one call of PointProcessor.process_point on the next sample of the sequence
SubmitEvenlySpacedWith(x0, d, dt) ==
    /\ Len(vel_results) < MaxSubmitted
    /\ IF vel_results = <<>> THEN spacing' = [d |-> d, dt |-> dt]
       ELSE /\ spacing = [d |-> d, dt |-> dt]
            /\ x0 = vel_results[1].raw.x
            /\ UNCHANGED spacing
    /\ LET raw == EvenlySpaced(x0, d, dt, Len(vel_results))
           out == process_point(raw)
       IN vel_results' = Append(vel_results,
              [raw |-> raw, out |-> out,
               velocity |-> IF out = None THEN None
                            ELSE <<velocity(out[1], process_point_previous_points)>>])
    /\ UNCHANGED <<variant, detVars, histVars, ctlVars, bufVars, concVars, stopVars, cbVars,
                   stageVars, featVars, lifeVars, sweepVars, ppVars, useVars, rdcVars, last_access_time>>

SubmitEvenlySpaced ==
    \E x0 \in Starts, d \in Displacements, dt \in TimeSteps : SubmitEvenlySpacedWith(x0, d, dt)

VelocityNext == SubmitEvenlySpaced

SpecVelocity == PointInit /\ [][VelocityNext]_vars

(* C31: every point after the first of an evenly spaced sample sequence
   (displacement d every dt) comes back from the point processor with
   velocity d/dt in normalised units. *)
C31_VelocityIsDisplacementOverTimeStep ==
    \A i \in 2..Len(vel_results) :
        /\ vel_results[i].out # None
        /\ vel_results[i].velocity[1] * spacing.dt
             = ((spacing.d * NormScale) \div (DeviceMax - DeviceMin)) * TicksPerSecond

(* C30: a malformed sample (a nan coordinate, a nan pressure, a negative
   pressure) given to process_point comes back as a point of confidence 0.5,
   and a well-formed sample submitted after a malformed one comes back as it
   does at any other time: dropped when its pressure is under the threshold,
   otherwise a point with the confidence its timestamp gives it. *)
C30_MalformedSampleYieldsHalfConfidence ==
    \A i \in 1..Len(pp_results) :
        LET r == pp_results[i]
        IN /\ r.raw \in MalformedInputs =>
                 /\ r.out # None
                 /\ r.confidence = <<FallbackConfidence>>
           /\ (r.raw \in RawInputs /\ i > 1 /\ pp_results[i - 1].raw \in MalformedInputs) =>
                 /\ (r.out = None) <=> (r.raw.pressure < pressure_threshold)
                 /\ r.out # None =>
                        r.confidence = <<IF r.raw.timestamp <= 0 THEN (NormScale * 3) \div 10
                                         ELSE NormScale>>

\* the members of a sequence
Range(seq) == {seq[i] : i \in 1..Len(seq)}

(* C32: no finalized stroke is lost. Every id appended to completed_strokes
   is still in completed_strokes, or in the local list of the thread that
   drained it, or has been appended to stroke_buffer and handed to
   on_stroke_completed; a step of get_completed_strokes' clear removes only
   strokes its own copy holds. *)
C32_NoFinalizedStrokeLost ==
    [][ /\ (pcWorker = "clear" /\ pcWorker' = "deliver")
            => Range(Ids(completed_strokes)) \subseteq Range(Ids(workerStrokes))
        /\ (pcMain = "clear" /\ pcMain' = "deliver")
            => Range(Ids(completed_strokes)) \subseteq Range(Ids(mainStrokes))
        /\ (pcWorker = "deliver" /\ pcWorker' # "deliver" /\ ~propagated')
            => Range(Ids(workerStrokes)) \subseteq Range(on_stroke_completed')
        /\ (pcMain = "deliver" /\ pcMain' # "deliver" /\ ~propagated')
            => Range(Ids(mainStrokes)) \subseteq Range(on_stroke_completed') ]_vars

(* C33: when stop_processing returns (its joins are over) the detector is
   Idle and current_stroke_points is empty, wherever the stroke-detection
   thread was in its loop when the stop began. *)
C33_DetectorIdleWhenStopReturns ==
    [][(pcMain = "join" /\ pcMain' = "idle")
        => (current_state' = IDLE /\ current_stroke_points' = <<>>)]_vars

(* C34: a sweep removes no item from a buffer the pipeline pushed to or
   popped from within the inactivity threshold: processed_point_buffer and
   stroke_buffer of a running pipeline keep their items. *)
C34_SweepSparesBuffersThePipelineUses ==
    [][\A th \in SweepThresholds :
          CleanupInactiveBuffersWith(th) =>
              \A name \in PipelineBuffers :
                  (bm_now - pipeline_access[name] <= th /\ Buffer(name) # <<>>)
                      => name \notin sweep_last'.cleared]_vars

(* C35: of each kind of worker thread at most one is inside its loop body at
   any time, over every sequence of start_processing and stop_processing
   calls, a start after a join that timed out included. *)
C35_AtMostOneWorkerOfEachKind ==
    \A name \in LoopNames :
        Cardinality({g \in 1..MaxStarts : loop_pc[<<g, name>>] = "body"}) <= 1

(* C36: between the calls of add_point, finalize_current_stroke and
   force_reset_state the detector is Active exactly when
   current_stroke_points is not empty, also after a call in which
   finalize_current_stroke left through its except handler. *)
C36_ActiveIffBufferNotEmpty ==
    (current_state = ACTIVE) <=> (current_stroke_points # <<>>)

(* C37: for every buffer, used by one thread through the BufferManager's
   methods, the number of items it holds is
   total_added - total_removed - total_dropped. *)
C37_SizeIsAddedMinusRemovedMinusDropped ==
    \A name \in BufferNames :
        Len(Buffer(name)) = buffer_stats[name].total_added
                              - buffer_stats[name].total_removed
                              - buffer_stats[name].total_dropped

\* the step gave a point to add_point and add_point began a stroke with it:
\* the buffer holds that one point afterwards
StrokeBegins == Len(current_stroke_points') = 1 /\ current_stroke_points' # current_stroke_points

(* C38: the on_point_processed event of a point given to add_point has
   is_stroke_start true exactly when that point is the first of a stroke,
   from process_raw_point and from the stroke-detection loop, a stroke begun
   by the stale-gap split included. *)
C38_StrokeStartFlagsFirstPoint ==
    [][ /\ \A raw \in RawInputs :
              (ProcessRawPointWith(raw) /\ raw.pressure # 0 /\ process_point(raw) # None)
                  => (on_point_processed'.is_stroke_start <=> StrokeBegins)
        /\ WorkerAddPoint => (on_point_processed'.is_stroke_start <=> StrokeBegins) ]_vars

(* ====================== the raw data collector ========================= *)
\* RawDataCollector.start_collection: a status other than CONNECTED raises
\* CollectionStartError inside the try block, and the handler clears
\* collection_active and raises again; an active collection returns True;
\* otherwise the statistics are reset, the thread started, the status set
start_collection(c) ==
    IF c.device_status # "CONNECTED"
    THEN [c EXCEPT !.collection_active = FALSE, !.returned = "none", !.raised = TRUE]
    ELSE IF c.collection_active
    THEN [c EXCEPT !.returned = "True", !.raised = FALSE]
    ELSE [c EXCEPT !.total_points = 0, !.collection_active = TRUE,
                   !.collection_thread = "running", !.device_status = "COLLECTING",
                   !.returned = "True", !.raised = FALSE]

\* RawDataCollector.stop_collection: True at once when nothing is active;
\* otherwise the flag is cleared, the thread joined, the status CONNECTED
stop_collection(c) ==
    IF ~c.collection_active
    THEN [c EXCEPT !.returned = "True", !.raised = FALSE]
    ELSE [c EXCEPT !.collection_active = FALSE,
                   !.collection_thread = IF @ = "running" THEN "ended" ELSE @,
                   !.device_status = "CONNECTED", !.returned = "True", !.raised = FALSE]

\* the collector's fields as one record
Collector ==
    [device_status |-> device_status, collection_active |-> collection_active,
     collection_thread |-> collection_thread, total_points |-> total_points,
     returned |-> "none", raised |-> FALSE]

SetCollector(op, c) ==
    /\ device_status' = c.device_status
    /\ collection_active' = c.collection_active
    /\ collection_thread' = c.collection_thread
    /\ total_points' = c.total_points
    /\ rdc_last' = [op |-> op, returned |-> c.returned, raised |-> c.raised,
                    was_active |-> collection_active]

\* what the collector's calls leave alone
outsideCollector ==
    <<variant, detVars, histVars, ctlVars, bufVars, concVars, stopVars, cbVars, stageVars,
      featVars, sweepVars, ppVars, velVars, useVars, last_access_time, is_running, life_last>>

\* RawDataCollector.initialize_device on its own
InitializeDeviceWith(scn) ==
    /\ device_status' = initialize_device(scn).device_status
    /\ rdc_last' = [op |-> "initialize_device", returned |-> initialize_device(scn).result,
                    raised |-> (initialize_device(scn).result = "raises"),
                    was_active |-> collection_active]
    /\ UNCHANGED <<collection_active, collection_thread, total_points, outsideCollector>>

InitializeDevice ==
    \E scn \in {sc \in InitScenarios : sc.failing \in {"none", "raw_collector"}} :
        InitializeDeviceWith(scn)

StartCollection ==
    /\ SetCollector("start_collection", start_collection(Collector))
    /\ UNCHANGED outsideCollector

StopCollection ==
    /\ SetCollector("stop_collection", stop_collection(Collector))
    /\ UNCHANGED outsideCollector

\* _collection_worker: `while self.collection_active`, one point per pass
CollectionWorker ==
    /\ collection_thread = "running"
    /\ IF collection_active
       THEN /\ total_points < MaxCollected
            /\ total_points' = total_points + 1
            /\ UNCHANGED collection_thread
       ELSE /\ collection_thread' = "ended"
            /\ UNCHANGED total_points
    /\ UNCHANGED <<device_status, collection_active, rdc_last, outsideCollector>>

CollectorNext ==
    \/ InitializeDevice
    \/ StartCollection
    \/ StopCollection
    \/ CollectionWorker

SpecCollector == BufInit /\ [][CollectorNext]_vars

(* C40: start_collection called while collection is active returns True and
   changes nothing: collection_active stays True, the status stays
   COLLECTING, the collection thread goes on and the statistics are kept. *)
C40_StartWhileCollectingIsNoOp ==
    [][(StartCollection /\ collection_active)
        => /\ rdc_last'.returned = "True"
           /\ ~rdc_last'.raised
           /\ collection_active'
           /\ device_status' = "COLLECTING"
           /\ UNCHANGED <<collection_thread, total_points>>]_vars

(* C39: start_processing sets is_processing and starts its threads only when
   initialize has succeeded (is_running is True); before that it starts
   nothing and is_processing stays False. *)
C39_StartOnlyAfterInitialize ==
    [][StartProcessingThreads => is_running]_vars

(* ------------------- properties of the callbacks ----------------------- *)

(* C19: an exception raised by a callback does not leave _trigger_callback:
   the step that called the callback ends as it ends when the callback
   returns, with every drained stroke stored and counted, the detector
   untouched, and the caller at its next step. *)
C19_CallbackExceptionNeverPropagates ==
    [][ /\ (pcWorker = "deliver" /\ pcWorker' # "deliver" /\ cb_last' = "raised") =>
              /\ ~propagated'
              /\ stroke_buffer' = stroke_buffer \o workerStrokes
              /\ total_strokes' = total_strokes + Len(workerStrokes)
              /\ pcWorker' = "get"
              /\ UNCHANGED detVars
        /\ (pcMain = "deliver" /\ pcMain' # "deliver" /\ cb_last' = "raised") =>
              /\ ~propagated'
              /\ stroke_buffer' = stroke_buffer \o mainStrokes
              /\ total_strokes' = total_strokes + Len(mainStrokes)
              /\ pcMain' = "idle"
              /\ lock' = "free"
              /\ UNCHANGED detVars ]_vars

\* an on_stroke_completed callback has raised and the stroke is stored and counted
C19_Witness_CallbackRaisedStrokeStored ==
    /\ cb_last = "raised"
    /\ total_strokes > 0
    /\ Len(stroke_buffer) = total_strokes

(* C20: whenever a callback has raised, the on_error callback, which is
   registered, has been called. *)
C20_CallbackFailureReportedToOnError ==
    ("on_error" \in callbacks /\ cb_last = "raised") => on_error_calls > 0

====
